---- MODULE Spec2Model ----
(***************************************************************************)
(* The selection registry of napari-time-series-plotter                    *)
(* (models.py: SourceLayerItem, SelectionLayerItem, LivePlotItem and       *)
(* LayerSelectionModel) as a state machine driven by the viewer's events.  *)
(*                                                                         *)
(* Abstractions                                                            *)
(*  - A layer object is a record of the attributes the registry reads:     *)
(*    _type_string, ndim, rgb and (images) the extent of the spatial axes. *)
(*    Space is one axis of voxels 0 .. extent-1.                           *)
(*  - The array of an image is named by a version number; the values      *)
(*    data[idx] are the term [img, ver, vox, red]: "the voxels vox of      *)
(*    version ver of image img, reduced by red".                           *)
(*  - An index tuple (slice(None), *coords) is the set of voxels it picks. *)
(*  - viewer.layers keeps the names of its members unique (napari's        *)
(*    LayerList coerces a name on insertion and on rename).                *)
(***************************************************************************)
EXTENDS Integers, Sequences, FiniteSets, TLC

VARIABLES
    pool,      \* the layer objects of this session
    layers,    \* viewer.layers: sequence of layer objects
    name,      \* layer.name of every member of viewer.layers
    geom,      \* layer.data of every points/shapes member
    ver,       \* layer.data (version) of every image that has a Source item
    rows,      \* the top-level rows of the LayerSelectionModel
    agg,       \* LayerSelectionModel._agg_func
    log,       \* what the handler of the last event did, in order
    call,      \* the last direct call of a function of utils.py, of
               \* VoxelPlotter or of the table's alignment, and its result
    selector,  \* the LayerSelector and the VoxelPlotter of _dock_widget.py
    table,     \* a TimeSeriesTableView, its table model and the source's
               \* tsData
    detached   \* the Selection items removed from the model whose
               \* callbacks are still connected to a layer

vars == <<pool, layers, name, geom, ver, rows, agg, log, call, selector, table,
          detached>>

----------------------------------------------------------------------------
(* Bounds *)

\* image data takes the versions 0 .. MaxVer
MaxVer == 1

\* world coordinates of points and pixels of shapes are 0 .. MaxCoord
MaxCoord == 1

----------------------------------------------------------------------------
(* Layer objects *)

Layer(id, type, ndim, rgb, extent) ==
    [id |-> id, type |-> type, ndim |-> ndim, rgb |-> rgb, extent |-> extent]

\* a session in which two Sources share a shapes layer whose geometry and
\* whose images' data change
A3 == Layer("A3", "image", 3, FALSE, 1)
A4 == Layer("A4", "image", 4, FALSE, 2)
SA == Layer("SA", "shapes", 3, FALSE, 0)
\* layers that make no Source item: a 2-D image, an RGB image, a labels layer
X2 == Layer("X2", "image", 2, FALSE, 1)
XR == Layer("XR", "image", 3, TRUE, 1)
L3 == Layer("L3", "labels", 3, FALSE, 1)
\* a session with two Sources, a points layer too flat for the 4-D image and
\* a shapes layer of more dimensions than the 3-D image
I3 == Layer("I3", "image", 3, FALSE, 2)
I4 == Layer("I4", "image", 4, FALSE, 1)
P2 == Layer("P2", "points", 2, FALSE, 0)
S4 == Layer("S4", "shapes", 4, FALSE, 0)
NoLayer == Layer("", "", 0, FALSE, 0)

\* the sessions explored: the layer objects the user works with
Universes == {{A3, A4, SA}, {A3, X2, XR, L3}, {I3, I4, P2, S4}, {A3, A4}}

\* the names the user gives a layer
NamesOf(l) ==
    CASE l = A3 -> {"a", "e"}
      [] l = I3 -> {"a"}
      [] l = I4 -> {"a_b"}
      [] l = P2 -> {"b_c"}
      [] l = S4 -> {"c"}
      [] OTHER -> {"n" \o l.id}

Coords == 0 .. MaxCoord
Versions == 0 .. MaxVer

\* a shape: do its vertices lie in one y/x plane, and the pixels it covers
Shape(planar, pix) == [planar |-> planar, pix |-> pix]

\* a vertex of a shape in layer space: its coordinates without the last two
\* (y/x), and its place in the y/x plane
Vertex(plane, pix) == [plane |-> plane, pix |-> pix]

\* the shape of a vertex list: it lies in one plane when all the vertices
\* have the same out-of-plane coordinates, and it covers the pixels from its
\* lowest to its highest vertex
ShapeOf(vertices) ==
    LET planes == {vertices[i].plane : i \in DOMAIN vertices}
        pixels == {vertices[i].pix : i \in DOMAIN vertices}
    IN  Shape(Cardinality(planes) = 1,
              {p \in Coords : \E a, b \in pixels : a <= p /\ p <= b})

ShapeGeoms ==
    {<<>>} \cup {<<ShapeOf(<<Vertex(0, 0), Vertex(0, c)>>)>> : c \in Coords}
           \cup {<<ShapeOf(<<Vertex(0, 0), Vertex(1, 0)>>)>>}
           \cup {<<ShapeOf(<<Vertex(0, 0)>>), ShapeOf(<<Vertex(0, 0), Vertex(1, 0)>>)>>}

\* the geometries the user gives a points or shapes layer
GeomsOf(l) ==
    CASE l = SA -> ShapeGeoms
      [] l = S4 -> {<<ShapeOf(<<Vertex(0, MaxCoord)>>)>>}
      [] l = P2 -> {<<0, MaxCoord>>}
      [] OTHER -> {<<>>}

\* cursor positions in half voxels: -1 is the position -0.5
Halves == -1 .. 2 * MaxCoord + 1

\* the positions the cursor visits with Shift held in a session
CursorsOf(p) == IF p = {A3, A4} THEN Halves ELSE {}

\* the versions of the data the user gives an image
VersionsOf(l) == IF l = A4 THEN Versions ELSE {0}

----------------------------------------------------------------------------
(* Helpers on sequences *)

Range(s) == {s[i] : i \in DOMAIN s}

RECURSIVE Concat(_)
Concat(ss) == IF ss = <<>> THEN <<>> ELSE Head(ss) \o Concat(Tail(ss))

RemoveAt(s, i) == SubSeq(s, 1, i - 1) \o SubSeq(s, i + 1, Len(s))

Restrict(f, S) == [x \in S |-> f[x]]

Extend(f, x, v) == [y \in DOMAIN f \cup {x} |-> IF y = x THEN v ELSE f[y]]

----------------------------------------------------------------------------
(* utils: coordinate transform and index derivation *)

Ok(v) == [err |-> "", val |-> v]
Raise(e) == [err |-> e, val |-> <<>>]

\* to_world_space(data, layer): the transform is the identity here; rows
\* equal to their predecessor are collapsed
RECURSIVE to_world_space(_)
to_world_space(points) ==
    IF Len(points) <= 1 THEN points
    ELSE LET front == SubSeq(points, 1, Len(points) - 1)
             last == points[Len(points)]
         IN  IF last = points[Len(points) - 1]
             THEN to_world_space(front)
             ELSE Append(to_world_space(front), last)

\* points_to_ts_indices(points, layer): one index tuple per point inside the
\* source, in input order
points_to_ts_indices(points, pdim, src) ==
    IF pdim < src.ndim - 1 THEN Raise("DimensionMismatch")
    ELSE Ok(Concat([i \in DOMAIN points |->
                IF 0 <= points[i] /\ points[i] < src.extent
                THEN <<{points[i]}>> ELSE <<>>]))

\* shape_to_ts_indices(vertices, layer): the pixels of the shape inside the
\* source; a shape spanning several planes is refused
shape_to_ts_indices(shape, sdim, src) ==
    IF sdim < src.ndim - 1 THEN Raise("DimensionMismatch")
    ELSE IF ~shape.planar THEN Raise("NonPlanarShape")
    ELSE Ok({p \in shape.pix : 0 <= p /\ p < src.extent})

----------------------------------------------------------------------------
(* Items *)

\* the time series data[idx] of version v of image src
TsVal(src, v, vox, red) == [img |-> src.id, ver |-> v, vox |-> vox, red |-> red]

\* a variant of ExtractIndices that leaves out the shapes whose index
\* derivation fails
ExtractIndices_SkipFailed(layer, g, src) ==
    IF layer.type = "shapes"
    THEN LET res == [i \in DOMAIN g |-> shape_to_ts_indices(g[i], layer.ndim, src)]
         IN  Ok(Concat([i \in DOMAIN g |->
                    IF res[i].err = "" THEN <<res[i].val>> ELSE <<>>]))
    ELSE LET res == points_to_ts_indices(to_world_space(g), layer.ndim, src)
         IN  IF res.err # "" THEN res
             ELSE Ok(res.val)

\* SelectionLayerItem._extract_indices: the index tuples of the item's layer
\* (geometry g) against the layer src of the parent item
ExtractIndices(layer, g, src) ==
    IF layer.type = "shapes"
    THEN LET res == [i \in DOMAIN g |-> shape_to_ts_indices(g[i], layer.ndim, src)]
             bad == {i \in DOMAIN g : res[i].err # ""}
         IN  IF bad # {}
             THEN Raise(res[CHOOSE i \in bad : \A j \in bad : i <= j].err)
             ELSE Ok([i \in DOMAIN g |-> res[i].val])
    ELSE LET res == points_to_ts_indices(to_world_space(g), layer.ndim, src)
         IN  IF res.err # "" THEN res
             ELSE Ok(res.val)

\* SelectionLayerItem._extract_ts_data: data[idx] for every cached index,
\* reduced for a shapes layer once the item is in a model.  self.model().aggFunc
\* is the bound method, so only self.model() decides; the reducer is then
\* called whatever it is: None is not callable, and np.max and np.min refuse
\* an index that selects no voxel
ExtractTsData(layer, indices, src, v, inModel, aggFunc) ==
    IF layer.type = "shapes" /\ inModel /\ indices # <<>> /\ aggFunc = "None"
    THEN Raise("TypeError")
    ELSE IF /\ layer.type = "shapes" /\ inModel /\ aggFunc \in {"max", "min"}
            /\ \E i \in DOMAIN indices : indices[i] = {}
    THEN Raise("ValueError")
    ELSE Ok([i \in DOMAIN indices |->
                TsVal(src, v, indices[i],
                      IF layer.type = "shapes" /\ inModel THEN aggFunc ELSE "none")])

\* SourceLayerItem.__init__
SourceLayerItem(layer) ==
    [kind |-> "source", layer |-> layer, checked |-> FALSE,
     children |-> <<>>, ts |-> <<>>]

\* LivePlotItem.__init__: no cursor position yet, hence no series
LivePlotItem ==
    [kind |-> "live", layer |-> NoLayer, checked |-> FALSE,
     children |-> <<>>, ts |-> <<>>, cpos |-> <<>>]

\* SelectionLayerItem.__init__ for layer (geometry g) under the Source item of
\* image parent (data version v); the new item is in no model yet
SelectionLayerItem(layer, g, parent, v) ==
    IF layer.type \notin {"points", "shapes"} THEN Raise("ValueError")
    ELSE IF layer.ndim < layer.ndim - 1 THEN Raise("ValueError")
    ELSE LET ind == ExtractIndices(layer, g, parent)
         IN  IF ind.err # "" THEN ind
             ELSE LET ts == ExtractTsData(layer, ind.val, parent, v, FALSE, "None")
                  IN  Ok([layer |-> layer, checked |-> FALSE,
                          indices |-> ind.val, ts |-> ts.val])

\* a variant of Display that shows a text fixed when the item was made
Display_Fixed(item, nm) == IF item.kind = "live" THEN "LivePlot" ELSE item.layer.id

\* item.data(Qt.DisplayRole) of a top-level item
Display(item, nm) == IF item.kind = "live" THEN "LivePlot" ELSE nm[item.layer.id]

\* SelectionLayerItem.data(Qt.UserRole + 5)
Identifier(item, child, nm) == nm[item.layer.id] \o "_" \o nm[child.layer.id]

\* a variant of LivePlot_extract_ts_data that reads every Source item,
\* checked or not
LivePlot_extract_ts_data_AnySource(rws, nm, cpos, pdim, vr) ==
    IF cpos = <<>> THEN Ok(<<>>)
    ELSE LET res == [r \in DOMAIN rws |->
                 IF rws[r].kind # "live"
                 THEN LET idx == points_to_ts_indices(cpos, pdim, rws[r].layer)
                      IN  IF idx.err # "" THEN idx
                          ELSE IF idx.val # <<>>
                          THEN Ok(<<TsVal(rws[r].layer, vr[rws[r].layer.id],
                                          idx.val[1], "none")>>)
                          ELSE Ok(<<>>)
                 ELSE Ok(<<>>)]
         IN  Ok(Concat([r \in DOMAIN rws |-> res[r].val]))

\* LivePlotItem._extract_ts_data of the live item of a model with rows rws:
\* data[idx] of every checked Source item that contains the position cpos,
\* a point of pdim coordinates
LivePlot_extract_ts_data(rws, nm, cpos, pdim, vr) ==
    IF cpos = <<>> THEN Ok(<<>>)
    ELSE LET res == [r \in DOMAIN rws |->
                 IF Display(rws[r], nm) # "LivePlot" /\ rws[r].checked
                 THEN LET idx == points_to_ts_indices(cpos, pdim, rws[r].layer)
                      IN  IF idx.err # "" THEN idx
                          ELSE IF idx.val # <<>>
                          THEN Ok(<<TsVal(rws[r].layer, vr[rws[r].layer.id],
                                          idx.val[1], "none")>>)
                          ELSE Ok(<<>>)
                 ELSE Ok(<<>>)]
             bad == {r \in DOMAIN rws : res[r].err # ""}
         IN  IF bad # {}
             THEN Raise(res[CHOOSE r \in bad : \A q \in bad : r <= q].err)
             ELSE Ok(Concat([r \in DOMAIN rws |-> res[r].val]))

----------------------------------------------------------------------------
(* LayerSelectionModel.tsData *)

\* the entries one checked child contributes, in enumeration order; src, sel
\* and idx record where the series comes from
ChildEntries(item, child, nm) ==
    [i \in DOMAIN child.ts |->
        [key |-> Identifier(item, child, nm) \o "_" \o ToString(i - 1),
         ts |-> child.ts[i],
         src |-> item.layer.id, sel |-> child.layer.id, idx |-> i - 1]]

\* a variant of RowEntries that does not look at the check state of the
\* Source item
RowEntries_AnySource(item, nm) ==
    IF Display(item, nm) = "LivePlot"
    THEN [i \in DOMAIN item.ts |->
            [key |-> "LivePlot_layer" \o "_" \o ToString(i - 1),
             ts |-> item.ts[i], src |-> "", sel |-> "", idx |-> i - 1]]
    ELSE Concat([j \in DOMAIN item.children |->
                    IF item.children[j].checked
                    THEN ChildEntries(item, item.children[j], nm)
                    ELSE <<>>])

\* the entries of one top-level row
RowEntries(item, nm) ==
    IF Display(item, nm) = "LivePlot"
    THEN [i \in DOMAIN item.ts |->
            [key |-> "LivePlot_layer" \o "_" \o ToString(i - 1),
             ts |-> item.ts[i], src |-> "", sel |-> "", idx |-> i - 1]]
    ELSE IF item.checked /\ Len(item.children) > 0
    THEN Concat([j \in DOMAIN item.children |->
                    IF item.children[j].checked
                    THEN ChildEntries(item, item.children[j], nm)
                    ELSE <<>>])
    ELSE <<>>

\* every ts_data.update(...) of the property, in order
TsUpdates(rws, nm) == Concat([r \in DOMAIN rws |-> RowEntries(rws[r], nm)])

\* a variant of TsData in which the first update of a key stays
TsData_FirstWins(rws, nm) ==
    LET ups == Concat([r \in DOMAIN rws |-> RowEntries(rws[r], nm)])
        first(k) == CHOOSE i \in DOMAIN ups :
                      /\ ups[i].key = k
                      /\ \A j \in DOMAIN ups : ups[j].key = k => i <= j
    IN  [k \in {ups[i].key : i \in DOMAIN ups} |-> ups[first(k)]]

\* the dict returned: a later update of a key replaces the earlier one
TsData(rws, nm) ==
    LET ups == TsUpdates(rws, nm)
        last(k) == CHOOSE i \in DOMAIN ups :
                      /\ ups[i].key = k
                      /\ \A j \in DOMAIN ups : ups[j].key = k => j <= i
    IN  [k \in {ups[i].key : i \in DOMAIN ups} |-> ups[last(k)]]

tsData == TsData(rows, name)

----------------------------------------------------------------------------
(* Recomputation *)

LogE(op, src, sel, info) == [op |-> op, src |-> src, sel |-> sel, info |-> info]

\* np.array_equal(a, b)
array_equal(a, b) == a = b

\* Python's ~ on a bool: ~True = -2, ~False = -1
Invert(b) == IF b THEN -2 ELSE -1

\* the truth value of an int in an if
Truthy(n) == n # 0

\* a variant of updateTSData that notifies before it stores the new series
updateTSData_EmitFirst(item, child, vr, aggFunc) ==
    LET ts == ExtractTsData(child.layer, child.indices, item.layer,
                            vr[item.layer.id], TRUE, aggFunc)
    IN  IF ts.err # ""
        THEN [err |-> ts.err, child |-> child,
              log |-> <<LogE("raise", item.layer.id, child.layer.id, ts.err)>>]
        ELSE [err |-> "", child |-> [child EXCEPT !.ts = ts.val],
              log |-> <<LogE("emit", item.layer.id, child.layer.id, ""),
                        LogE("ts", item.layer.id, child.layer.id, "")>>]

\* SelectionLayerItem.updateTSData of child under item: the result is the
\* child afterwards, what was done, and the exception that ended it
updateTSData(item, child, vr, aggFunc) ==
    LET ts == ExtractTsData(child.layer, child.indices, item.layer,
                            vr[item.layer.id], TRUE, aggFunc)
    IN  IF ts.err # ""
        THEN [err |-> ts.err, child |-> child,
              log |-> <<LogE("raise", item.layer.id, child.layer.id, ts.err)>>]
        ELSE [err |-> "", child |-> [child EXCEPT !.ts = ts.val],
              log |-> <<LogE("ts", item.layer.id, child.layer.id, ""),
                        LogE("emit", item.layer.id, child.layer.id, "")>>]

\* a variant of updateTSIndices that empties the caches before it derives the
\* indices, so that a failed derivation leaves them empty
updateTSIndices_ClearFirst(item, child, gm, vr, aggFunc) ==
    LET new_indices == ExtractIndices(child.layer, gm[child.layer.id], item.layer)
    IN  IF new_indices.err # ""
        THEN [err |-> new_indices.err,
              child |-> [child EXCEPT !.indices = <<>>, !.ts = <<>>],
              log |-> <<LogE("raise", item.layer.id, child.layer.id,
                             new_indices.err)>>]
        ELSE LET same == array_equal(new_indices.val, child.indices)
                 note == LogE("indices", item.layer.id, child.layer.id,
                              IF same THEN "same" ELSE "changed")
                 upd == updateTSData(
                            item, [child EXCEPT !.indices = new_indices.val],
                            vr, aggFunc)
             IN  [upd EXCEPT !.log = <<note>> \o @]

\* SelectionLayerItem.updateTSIndices of child under item
updateTSIndices(item, child, gm, vr, aggFunc) ==
    LET new_indices == ExtractIndices(child.layer, gm[child.layer.id], item.layer)
    IN  IF new_indices.err # ""
        THEN [err |-> new_indices.err, child |-> child,
              log |-> <<LogE("raise", item.layer.id, child.layer.id,
                             new_indices.err)>>]
        ELSE LET same == array_equal(new_indices.val, child.indices)
                 note == LogE("indices", item.layer.id, child.layer.id,
                              IF same THEN "same" ELSE "changed")
             IN  IF Truthy(Invert(same))
                 THEN LET upd == updateTSData(
                                    item, [child EXCEPT !.indices = new_indices.val],
                                    vr, aggFunc)
                      IN  [upd EXCEPT !.log = <<note>> \o @]
                 ELSE [err |-> "", child |-> child, log |-> <<note>>]

\* a variant of Connected in which the data event of an image reaches the
\* updateTSData of every Selection item
Connected_DataToAll(rws, l, what) ==
    Concat([r \in DOMAIN rws |->
        Concat([j \in DOMAIN rws[r].children |->
            IF \/ what = "indices" /\ rws[r].children[j].layer = l
               \/ what = "data"
            THEN <<(<<r, j>>)>> ELSE <<>>])])

\* the children whose callback is connected to the data event of layer l:
\* _pl_ec (what = "indices") for the item's own layer, _pil_ec (what = "data")
\* for the parent item's layer; <<row, child row>> in row order
Connected(rws, l, what) ==
    Concat([r \in DOMAIN rws |->
        Concat([j \in DOMAIN rws[r].children |->
            IF \/ what = "indices" /\ rws[r].children[j].layer = l
               \/ what = "data" /\ rws[r].layer = l
            THEN <<(<<r, j>>)>> ELSE <<>>])])

\* the emitter calls the connected callbacks one after the other; an
\* exception leaves the remaining ones uncalled
RECURSIVE Dispatch(_, _, _, _, _, _, _)
Dispatch(rws, paths, what, gm, vr, aggFunc, lg) ==
    IF paths = <<>> THEN [rows |-> rws, log |-> lg]
    ELSE LET r == Head(paths)[1]
             j == Head(paths)[2]
             upd == IF what = "indices"
                    THEN updateTSIndices(rws[r], rws[r].children[j], gm, vr, aggFunc)
                    ELSE updateTSData(rws[r], rws[r].children[j], vr, aggFunc)
             rws1 == [rws EXCEPT ![r].children[j] = upd.child]
         IN  IF upd.err # ""
             THEN [rows |-> rws1, log |-> lg \o upd.log]
             ELSE Dispatch(rws1, Tail(paths), what, gm, vr, aggFunc, lg \o upd.log)

----------------------------------------------------------------------------
(* LayerSelectionModel: the handlers *)

IsSelectionLayer(l) == l.type \in {"points", "shapes"}

\* a variant of IsSourceLayer that does not look at rgb
IsSourceLayer_AnyColour(l) == l.type = "image" /\ l.ndim > 2

\* the test of _layer_inserted_callback and _init_data for a top-level item
IsSourceLayer(l) == l.type = "image" /\ l.ndim > 2 /\ ~l.rgb

\* a variant of Pairable that also refuses a selection layer of more
\* dimensions than the image
Pairable_WithinOne(sel, image) ==
    sel.ndim >= image.ndim - 1 /\ sel.ndim <= image.ndim

\* the dimensionality test the registry makes before it pairs a selection
\* layer with the Source item of image
Pairable(sel, image) == sel.ndim >= image.ndim - 1

Reverse(s) == [i \in 1 .. Len(s) |-> s[Len(s) + 1 - i]]

FirstError(res) ==
    LET bad == {i \in DOMAIN res : res[i].err # ""}
    IN  IF bad = {} THEN "" ELSE res[CHOOSE i \in bad : \A j \in bad : i <= j].err

\* the list comprehension of SelectionLayerItem(llitem, item) over the
\* selection layers sels, for the new Source item of image
NewChildren(sels, image, gm, v) ==
    LET res == [i \in DOMAIN sels |->
                    SelectionLayerItem(sels[i], gm[sels[i].id], image, v)]
    IN  IF FirstError(res) # "" THEN Raise(FirstError(res))
        ELSE Ok([i \in DOMAIN sels |-> res[i].val])

\* the loop of _layer_inserted_callback for a points or shapes layer, from
\* row r on: a new child at row 0 of every Source item that passes the test
RECURSIVE InsertSelection(_, _, _, _, _, _)
InsertSelection(rws, r, layer, nm, gm, vr) ==
    IF r > Len(rws) THEN [rows |-> rws, err |-> ""]
    ELSE IF /\ Display(rws[r], nm) # "LivePlot"
            /\ rws[r].layer.ndim - 1 <= layer.ndim
    THEN LET made == SelectionLayerItem(layer, gm[layer.id], rws[r].layer,
                                        vr[rws[r].layer.id])
         IN  IF made.err # "" THEN [rows |-> rws, err |-> made.err]
             ELSE InsertSelection(
                    [rws EXCEPT ![r].children = <<made.val>> \o @],
                    r + 1, layer, nm, gm, vr)
    ELSE InsertSelection(rws, r + 1, layer, nm, gm, vr)

\* _layer_inserted_callback(event) with event.value = layer; lys, nm, gm, vr
\* are the layer list and the layers' attributes with the layer inserted
layer_inserted_callback(rws, layer, lys, nm, gm, vr) ==
    IF layer.type = "image" /\ layer.ndim > 2 /\ ~layer.rgb
    THEN LET item == SourceLayerItem(layer)
             child_items == NewChildren(
                 SelectSeq(lys, LAMBDA x : IsSelectionLayer(x) /\ Pairable(x, layer)),
                 layer, gm, vr[layer.id])
         IN  IF child_items.err # "" THEN [rows |-> rws, err |-> child_items.err]
             ELSE [rows |-> <<[item EXCEPT !.children = child_items.val]>> \o rws,
                   err |-> ""]
    ELSE IF layer.type \in {"points", "shapes"}
    THEN InsertSelection(rws, 1, layer, nm, gm, vr)
    ELSE [rows |-> rws, err |-> ""]

\* a variant of findItems that matches every row
findItems_All(rws, nm, text) == [r \in DOMAIN rws |-> r]

\* QStandardItemModel.findItems(text): the top-level rows displaying text
findItems(rws, nm, text) ==
    SelectSeq([r \in DOMAIN rws |-> r], LAMBDA r : Display(rws[r], nm) = text)

\* a variant of RemoveChildren that removes every child
RemoveChildren_All(item, nm, text) == [item EXCEPT !.children = <<>>]

\* SourceLayerItem.findChildren(data) followed by removeRow of every match
RemoveChildren(item, nm, text) ==
    [item EXCEPT !.children = SelectSeq(@, LAMBDA c : nm[c.layer.id] # text)]

\* _layer_removed_callback(event) with event.value = layer; nm still holds
\* the name of the removed layer
layer_removed_callback(rws, layer, nm) ==
    IF layer.type = "image"
    THEN LET found == findItems(rws, nm, nm[layer.id])
         IN  IF found = <<>> THEN [rows |-> rws, err |-> "IndexError"]
             ELSE [rows |-> RemoveAt(rws, found[1]), err |-> ""]
    ELSE IF layer.type \in {"points", "shapes"}
    THEN [rows |-> [r \in DOMAIN rws |->
                       IF Len(rws[r].children) > 0
                       THEN RemoveChildren(rws[r], nm, nm[layer.id])
                       ELSE rws[r]],
          err |-> ""]
    ELSE [rows |-> rws, err |-> ""]

\* np.floor of a position given in half voxels
Floor(h) == h \div 2

\* _mouse_move_callback(viewer, event): with Shift among the modifiers the
\* live item gets the floored cursor position h (cpos setter) and updates its
\* series; pdim is the number of coordinates of the cursor
mouse_move_callback(rws, nm, h, shift, pdim, vr) ==
    IF shift
    THEN LET items == findItems(rws, nm, "LivePlot")
         IN  IF items # <<>>
             THEN LET cpos == <<Floor(h)>>
                      ts == LivePlot_extract_ts_data(rws, nm, cpos, pdim, vr)
                  IN  IF ts.err # ""
                      THEN [rows |-> [rws EXCEPT ![items[1]].cpos = cpos],
                            log |-> <<LogE("raise", "", "", ts.err)>>]
                      ELSE [rows |-> [rws EXCEPT ![items[1]].cpos = cpos,
                                                 ![items[1]].ts = ts.val],
                            log |-> <<LogE("ts", "", "", "live"),
                                      LogE("emit", "", "", "live")>>]
             ELSE [rows |-> rws, log |-> <<>>]
    ELSE [rows |-> rws, log |-> <<>>]

\* _init_data(layer_list): the rows of a freshly built model
init_data(lys, gm, vr) ==
    LET source_layers == SelectSeq(lys, IsSourceLayer)
        selection_layers == SelectSeq(lys, IsSelectionLayer)
        made == [i \in DOMAIN source_layers |->
                    NewChildren(
                        SelectSeq(selection_layers,
                                  LAMBDA x : Pairable(x, source_layers[i])),
                        source_layers[i], gm, vr[source_layers[i].id])]
        source_items == [i \in DOMAIN source_layers |->
                    [SourceLayerItem(source_layers[i])
                        EXCEPT !.children = Reverse(made[i].val)]]
    IN  IF FirstError(made) # "" THEN Raise(FirstError(made))
        ELSE Ok(Reverse(source_items) \o <<LivePlotItem>>)

----------------------------------------------------------------------------
(* The events *)

Members == Range(layers)
UsedNames == {name[x] : x \in DOMAIN name}
Ids(S) == {l.id : l \in S}
RaiseLog(err) == IF err = "" THEN <<>> ELSE <<LogE("raise", "", "", err)>>

\* viewer.layers.append(l): the layer arrives with a name no member carries
\* and, a selection layer, with some geometry; the inserted event follows
LayerInserted(l) ==
    /\ l \in pool /\ l \notin Members
    /\ \E n \in NamesOf(l) \ UsedNames :
       \E g \in GeomsOf(l) :
          LET lys == Append(layers, l)
              nm == Extend(name, l.id, n)
              gm == IF IsSelectionLayer(l) THEN Extend(geom, l.id, g) ELSE geom
              vr == IF IsSourceLayer(l) THEN Extend(ver, l.id, 0) ELSE ver
              done == layer_inserted_callback(rows, l, lys, nm, gm, vr)
          IN  /\ layers' = lys
              /\ name' = nm
              /\ geom' = gm
              /\ ver' = vr
              /\ rows' = done.rows
              /\ log' = <<LogE("event", l.id, "", "inserted")>> \o RaiseLog(done.err)
    /\ UNCHANGED <<detached, call, selector, table, pool, agg>>

\* viewer.layers.remove(l), then the removed event
LayerRemoved(l) ==
    /\ l \in Members
    /\ LET done == layer_removed_callback(rows, l, name)
       IN  /\ rows' = done.rows
           /\ log' = <<LogE("event", l.id, "", "removed")>> \o RaiseLog(done.err)
    /\ layers' = SelectSeq(layers, LAMBDA x : x # l)
    /\ name' = Restrict(name, DOMAIN name \ {l.id})
    /\ geom' = Restrict(geom, DOMAIN geom \ {l.id})
    /\ ver' = Restrict(ver, DOMAIN ver \ {l.id})
    /\ UNCHANGED <<detached, call, selector, table, pool, agg>>

\* layer.name = n on a member: the name event reaches the layer list, whose
\* listener emits dataChanged(QModelIndex(), QModelIndex())
LayerRenamed(l) ==
    /\ l \in Members
    /\ \E n \in NamesOf(l) \ UsedNames :
          name' = [name EXCEPT ![l.id] = n]
    /\ log' = <<LogE("event", l.id, "", "name"), LogE("emit", "", "", "")>>
    /\ UNCHANGED <<detached, call, selector, table, pool, layers, geom, ver, rows, agg>>

\* the user clicks the check box of the Source item in row r; Qt stores the
\* state and emits dataChanged for the item
SourceToggled(r) ==
    /\ r \in DOMAIN rows /\ rows[r].kind = "source"
    /\ rows' = [rows EXCEPT ![r].checked = ~@]
    /\ log' = <<LogE("event", "", "", "check"), LogE("emit", "", "", "")>>
    /\ UNCHANGED <<detached, call, selector, table, pool, layers, name, geom, ver, agg>>

\* the user clicks the check box of child j of the Source item in row r
SelectionToggled(r, j) ==
    /\ r \in DOMAIN rows /\ j \in DOMAIN rows[r].children
    /\ rows' = [rows EXCEPT ![r].children[j].checked = ~@]
    /\ log' = <<LogE("event", "", "", "check"), LogE("emit", "", "", "")>>
    /\ UNCHANGED <<detached, call, selector, table, pool, layers, name, geom, ver, agg>>

\* the data event of a points or shapes member (a point or vertex moved, was
\* added or deleted): every connected updateTSIndices runs
GeometryChanged(l) ==
    /\ l \in Members /\ IsSelectionLayer(l)
    /\ \E g \in GeomsOf(l) :
          LET gm == [geom EXCEPT ![l.id] = g]
              done == Dispatch(rows, Connected(rows, l, "indices"), "indices",
                               gm, ver, agg, <<>>)
          IN  /\ geom' = gm
              /\ rows' = done.rows
              /\ log' = <<LogE("event", l.id, "", "geometry")>> \o done.log
    /\ UNCHANGED <<detached, call, selector, table, pool, layers, name, ver, agg>>

\* the data event of an image that has a Source item: every connected
\* updateTSData runs
ImageDataChanged(l) ==
    /\ l \in Members /\ l.id \in DOMAIN ver
    /\ \E v \in VersionsOf(l) :
          LET vr == [ver EXCEPT ![l.id] = v]
              done == Dispatch(rows, Connected(rows, l, "data"), "data",
                               geom, vr, agg, <<>>)
          IN  /\ ver' = vr
              /\ rows' = done.rows
              /\ log' = <<LogE("event", l.id, "", "data")>> \o done.log
    /\ UNCHANGED <<detached, call, selector, table, pool, layers, name, geom, agg>>

\* the number of coordinates of viewer.cursor.position: the viewer has the
\* dimensions of its layer of most dimensions
CursorDims == IF Members = {} THEN 2
              ELSE CHOOSE d \in {l.ndim : l \in Members} :
                      \A l \in Members : l.ndim <= d

\* the mouse moves over the canvas to position h, with or without Shift
MouseMoved(h, shift) ==
    /\ h \in CursorsOf(pool)
    /\ LET done == mouse_move_callback(rows, name, h, shift, CursorDims, ver)
       IN  /\ rows' = done.rows
           /\ log' = <<LogE("event", "", ToString(h),
                            IF shift THEN "mouse Shift" ELSE "mouse")>>
                      \o done.log
    /\ UNCHANGED <<detached, call, selector, table, pool, layers, name, geom, ver, agg>>

----------------------------------------------------------------------------
(* The specification *)

\* no function has been called directly
NoCall == [fn |-> "none"]

\* the widgets of _dock_widget.py are not docked, no table view is open
NoSelector == [docked |-> FALSE]
NoTable == [requested |-> FALSE]

\* the sequences without repetition over S
ListsOf(S) ==
    UNION {{s \in [1 .. k -> S] : \A i, j \in 1 .. k : i # j => s[i] # s[j]} :
           k \in 0 .. Cardinality(S)}

\* LayerSelectionModel.__init__ on a viewer that holds some of the session's
\* layers already; a list on which _init_data raises builds no model
Init ==
    /\ pool \in Universes
    /\ layers \in ListsOf(pool)
    /\ name \in [Ids(Members) -> UNION {NamesOf(l) : l \in Members}]
    /\ \A l \in Members : name[l.id] \in NamesOf(l)
    /\ \A x, y \in DOMAIN name : x # y => name[x] # name[y]
    /\ \E gp \in UNION {GeomsOf(l) : l \in {x \in pool : x.type = "points"}} \cup {<<>>} :
       \E gs \in UNION {GeomsOf(l) : l \in {x \in pool : x.type = "shapes"}} \cup {<<>>} :
          geom = [x \in Ids({l \in Members : l.type = "points"}) |-> gp]
                 @@ [x \in Ids({l \in Members : l.type = "shapes"}) |-> gs]
    /\ \A l \in Members : IsSelectionLayer(l) => geom[l.id] \in GeomsOf(l)
    /\ ver = [x \in Ids({l \in Members : IsSourceLayer(l)}) |-> 0]
    /\ agg = "mean"
    /\ init_data(layers, geom, ver).err = ""
    /\ rows = init_data(layers, geom, ver).val
    /\ log = <<LogE("event", "", "", "init"), LogE("emit", "", "", "")>>
    /\ detached = {}
    /\ call = NoCall
    /\ selector = NoSelector
    /\ table = NoTable

Next ==
    \/ \E l \in pool : LayerInserted(l)
    \/ \E l \in pool : LayerRemoved(l)
    \/ \E l \in pool : LayerRenamed(l)
    \/ \E l \in pool : GeometryChanged(l)
    \/ \E l \in pool : ImageDataChanged(l)
    \/ \E r \in DOMAIN rows : SourceToggled(r)
    \/ \E r \in DOMAIN rows : \E j \in DOMAIN rows[r].children : SelectionToggled(r, j)
    \/ \E h \in Halves : \E shift \in BOOLEAN : MouseMoved(h, shift)

Spec == Init /\ [][Next]_vars

----------------------------------------------------------------------------
(* The registry with changes of the reducer *)

\* the reducers the user chooses in the options, and no reducer
Reducers == {"mean", "max", "None"}

\* LayerSelectionModel.setAggFunc(func): with the signals of the model
\* blocked every child of every item updates its series, then the signals
\* are released and dataChanged is emitted; an exception of a child ends the
\* method where it is, with the signals still blocked
setAggFunc(rws, gm, vr, func) ==
    LET paths == Concat([r \in DOMAIN rws |->
                     [j \in DOMAIN rws[r].children |-> <<r, j>>]])
        done == Dispatch(rws, paths, "data", gm, vr, func, <<>>)
        quiet == SelectSeq(done.log, LAMBDA e : e.op # "emit")
        failed == \E i \in DOMAIN done.log : done.log[i].op = "raise"
    IN  [rows |-> done.rows,
         log |-> IF failed THEN quiet ELSE Append(quiet, LogE("emit", "", "", ""))]

\* the user chooses a reducer in the options
AggFuncChanged(func) ==
    /\ agg' = func
    /\ LET done == setAggFunc(rows, geom, ver, func)
       IN  /\ rows' = done.rows
           /\ log' = <<LogE("event", "", func, "setAggFunc")>> \o done.log
    /\ UNCHANGED <<detached, call, selector, table, pool, layers, name, geom, ver>>

\* setAggFunc has left the signals of the model blocked
SignalsBlocked ==
    /\ log # <<>> /\ log[1].info = "setAggFunc"
    /\ \E i \in DOMAIN log : log[i].op = "raise"

\* the events that change the items or the series of the Source and
\* Selection items, and the changes of the reducer; the mouse is left out
\* (it reaches the LivePlot item only, which setAggFunc passes over) and so
\* are the renames (the layers of this session have one name each).  What
\* follows a setAggFunc that left the signals blocked is not explored
AggNext ==
    \/ \E l \in pool : ~SignalsBlocked /\ LayerInserted(l)
    \/ \E l \in pool : ~SignalsBlocked /\ LayerRemoved(l)
    \/ \E l \in pool : ~SignalsBlocked /\ GeometryChanged(l)
    \/ \E l \in pool : ~SignalsBlocked /\ ImageDataChanged(l)
    \/ \E r \in DOMAIN rows : ~SignalsBlocked /\ SourceToggled(r)
    \/ \E r \in DOMAIN rows : \E j \in DOMAIN rows[r].children :
          ~SignalsBlocked /\ SelectionToggled(r, j)
    \/ \E func \in Reducers : ~SignalsBlocked /\ AggFuncChanged(func)

\* the sessions that have a points layer and a shapes layer
AggInit ==
    /\ Init
    /\ \E p, q \in pool : p.type = "points" /\ q.type = "shapes"

AggSpec == AggInit /\ [][AggNext]_vars

----------------------------------------------------------------------------
(* utils.py and VoxelPlotter: the extraction of one voxel's time series *)

MaxT == 2       \* the most time points of an image
MaxSide == 3    \* the largest size of a spatial axis of an image

\* the absent result
None == <<>>

\* image layers: data.shape is (t, y, x), the layer is translated by a whole
\* number of pixels along every axis; the element stored at an index is a
\* marker naming that index
ImageShapes ==
    {<<t, y, x>> : t \in 1 .. MaxT, y \in 1 .. MaxSide, x \in 1 .. MaxSide}
Translates == {0, 1}
ImageLayers == [shape : ImageShapes, translate : Translates]
data_at(idx) == idx

\* cursor coordinates, in halves of a pixel, from half a pixel before the
\* first element to the first position past the largest axis
CursorHalves == -1 .. 2 * MaxSide
Cursors == {<<a, b, c>> : a \in CursorHalves, b \in CursorHalves, c \in CursorHalves}

\* the x axis scalings, in halves: 0.5 and 1
XScales == {1, 2}

\* layer.world_to_data(cpos) on one coordinate, in halves of a pixel
world_to_data(layer, h) == h - 2 * layer.translate

\* a variant of np_round that cuts the fraction off
np_round_Down(h) == h \div 2

\* int(np.round(v)) of a coordinate of h halves: a half goes to the even
\* neighbour
np_round(h) ==
    IF h % 2 = 0 THEN h \div 2
    ELSE LET k == (h - 1) \div 2 IN IF k % 2 = 0 THEN k ELSE k + 1

\* tuple(map(int, np.round(layer.world_to_data(cpos))))
data_index(layer, cpos) ==
    [i \in DOMAIN cpos |-> np_round(world_to_data(layer, cpos[i]))]

InBounds_UpperOnly(ind, shape) ==
    \A i \in DOMAIN ind \cap DOMAIN shape : ind[i] < shape[i]

\* all([0 <= i < max_i for i, max_i in zip(ind, data.shape)])
InBounds(ind, shape) ==
    \A i \in DOMAIN ind \cap DOMAIN shape : 0 <= ind[i] /\ ind[i] < shape[i]

\* data[(slice(None),) + ind[1:]]
time_series_at(shape, ind) ==
    [t \in 1 .. shape[1] |-> data_at(<<t - 1>> \o Tail(ind))]

\* add_index_dim(arr1d, scale): row 0 holds the scaled indices (in halves),
\* row 1 the array
add_index_dim(arr1d, scale) ==
    <<[i \in 1 .. Len(arr1d) |-> (i - 1) * scale], arr1d>>

\* utils.extract_voxel_time_series(cpos, layer, xscale)
extract_voxel_time_series(cpos, layer, xscale) ==
    LET ind == data_index(layer, cpos)
    IN  IF InBounds(ind, layer.shape)
        THEN [ind |-> ind,
              vts |-> add_index_dim(time_series_at(layer.shape, ind), xscale)]
        ELSE [ind |-> ind, vts |-> None]

\* VoxelPlotter._extract_voxel_time_series(cpos, nlayer)
VoxelPlotter_extract_voxel_time_series(cpos, nlayer) ==
    LET ind == data_index(nlayer, cpos)
    IN  IF InBounds(ind, nlayer.shape)
        THEN [ind |-> ind, vts |-> time_series_at(nlayer.shape, ind)]
        ELSE [ind |-> ind, vts |-> None]

\* VoxelPlotter._plot_voxel_callback(viewer, event) with Shift held and one
\* selected layer: the cursor position is rounded, the plot is cleared and
\* the layer's series is plotted unless it is None
plot_voxel_callback(cpos, layer) ==
    LET cursor_pos == [i \in DOMAIN cpos |-> 2 * np_round(cpos[i])]
        r == VoxelPlotter_extract_voxel_time_series(cursor_pos, layer)
    IN  [ind |-> r.ind, vts |-> r.vts,
         plotted |-> IF r.vts # None THEN <<r.vts>> ELSE <<>>]

----------------------------------------------------------------------------
(* utils.py: the time series of a region of interest *)

MaxPlanes == 2  \* the largest size of an out-of-plane axis
MaxPix == 2     \* the number of pixels of the (y, x) plane
MaxLabel == 2   \* the largest region id of a label array

\* image layers of 3, 4 and 5 dimensions: data.shape is (t, *outer, y, x);
\* the (y, x) plane is flattened to the pixels 0 .. MaxPix - 1
OuterShapes ==
    {<<>>} \cup {<<a>> : a \in 1 .. MaxPlanes}
           \cup {<<a, b>> : a \in 1 .. MaxPlanes, b \in 1 .. MaxPlanes}
RoiLayers == [t : 1 .. MaxT, outer : OuterShapes]

\* the positions along the out-of-plane axes of a layer
PlanesOf(outer) ==
    IF outer = <<>> THEN {<<>>}
    ELSE IF Len(outer) = 1 THEN {<<a>> : a \in 0 .. outer[1] - 1}
    ELSE {<<a, b>> : a \in 0 .. outer[1] - 1, b \in 0 .. outer[2] - 1}

\* Shapes.to_labels(): a region id, or 0, for every pixel of the plane
LabelArrays == [0 .. MaxPix - 1 -> 0 .. MaxLabel]
ShapeIndices == 0 .. MaxLabel - 1

\* mode_dict
mode_dict ==
    [Min |-> "np.min", Max |-> "np.max", Mean |-> "np.mean",
     Median |-> "np.median", Sum |-> "np.sum", Std |-> "np.std"]
RoiModes == DOMAIN mode_dict

\* mode_dict[roi_mode](layer.data[mask].reshape(dshape[0], -1), axis=1): for
\* every time point the reducer applied to the elements under the mask
reduce_masked(t, mask, roi_mode) ==
    [i \in 1 .. t |->
        [reducer |-> mode_dict[roi_mode],
         over |-> {data_at(<<i - 1>> \o v[1] \o <<v[2]>>) : v \in mask}]]

\* utils.extract_ROI_time_series(current_step, layer, labels, idx_shape,
\* roi_mode, xscale); step is current_step[1:-2].  For ndim > 3 the index
\* raw_mask[0, step, ...] takes the tuple step as a list of positions along
\* axis 1 and the ellipsis as every position of the axes after it
extract_ROI_time_series(step, layer, labels, idx_shape, roi_mode, xscale) ==
    LET ndim == Len(layer.outer) + 3
        match == {p \in DOMAIN labels : labels[p] = idx_shape + 1}
        marked == IF ndim = 3 THEN {<<>>}
                  ELSE {pl \in PlanesOf(layer.outer) : pl[1] \in Range(step)}
        mask == {<<pl, p>> : pl \in marked, p \in match}
    IN  IF ndim # 3 /\ \E i \in DOMAIN step : step[i] >= layer.outer[1]
        THEN Raise("IndexError")
        ELSE IF mask # {}
        THEN Ok(add_index_dim(reduce_masked(layer.t, mask, roi_mode), xscale))
        ELSE Ok(None)

----------------------------------------------------------------------------
(* utils.align_value_length and TimeSeriesTableModel.update *)

MaxLen == 2     \* the longest time series of the mapping
MaxItems == 3   \* the most items of a SelectorListModel

NaN == "nan"
Samples == {"1.0", "2.5"}
SeriesKeys == {"k1", "k2"}
SeriesUpTo(n) == UNION {[1 .. k -> Samples] : k \in 0 .. n}
Mappings == UNION {[ks -> SeriesUpTo(MaxLen)] : ks \in SUBSET SeriesKeys}

MaxOf(S) == CHOOSE m \in S : \A x \in S : x <= m

\* align_value_length(data): every sequence is padded at its end with NaN up
\* to the length of the longest; an empty mapping is refused
align_value_length(d) ==
    IF DOMAIN d = {} THEN Raise("EmptyInput")
    ELSE LET m == MaxOf({Len(d[k]) : k \in DOMAIN d})
         IN  Ok([k \in DOMAIN d |-> d[k] \o [i \in 1 .. m - Len(d[k]) |-> NaN]])

\* pd.DataFrame(): the table's frame before its first update
EmptyFrame == <<>>

\* pd.DataFrame.from_dict(data): one column per key; columns of unequal
\* length are refused with a ValueError
from_dict(d) ==
    IF \A j, k \in DOMAIN d : Len(d[j]) = Len(d[k]) THEN Ok(d)
    ELSE Raise("ValueError")

update_Unaligned(source_tsData) ==
    IF DOMAIN source_tsData # {}
    THEN LET f == from_dict(source_tsData)
         IN  IF f.err = ""
             THEN [err |-> "", data |-> f.val, emitted |-> TRUE, rv |-> TRUE]
             ELSE [err |-> "", data |-> EmptyFrame, emitted |-> FALSE,
                   rv |-> FALSE]
    ELSE [err |-> "UnboundLocalError", data |-> EmptyFrame,
          emitted |-> FALSE, rv |-> FALSE]

\* TimeSeriesTableModel.update() of a table that holds the empty frame: a
\* non-empty tsData is aligned and becomes the table's frame, layoutChanged
\* is emitted and True returned; a ValueError leaves the frame and returns
\* False; with an empty tsData rv is never bound and the return raises
update(source_tsData) ==
    IF DOMAIN source_tsData # {}
    THEN LET a == align_value_length(source_tsData)
             f == IF a.err = "" THEN from_dict(a.val) ELSE a
         IN  IF f.err = ""
             THEN [err |-> "", data |-> f.val, emitted |-> TRUE, rv |-> TRUE]
             ELSE IF f.err = "ValueError"
             THEN [err |-> "", data |-> EmptyFrame, emitted |-> FALSE,
                   rv |-> FALSE]
             ELSE [err |-> f.err, data |-> EmptyFrame, emitted |-> FALSE,
                   rv |-> FALSE]
    ELSE [err |-> "UnboundLocalError", data |-> EmptyFrame,
          emitted |-> FALSE, rv |-> FALSE]

----------------------------------------------------------------------------
(* widgets.py: TimeSeriesMPLWidget *)

\* an array of one dimension (a time series) and an array of two dimensions
\* (time, voxel) given by its columns
Array1(series) == [dim |-> 1, cols |-> <<series>>]
Array2(cols) == [dim |-> 2, cols |-> cols]

\* the values of tsData: the time series, and the arrays of the voxels of a
\* shape that no reducer was applied to (none, one or two voxels, one time
\* point)
PlotSeries == {Array1(s) : s \in SeriesUpTo(MaxLen) \ {<<>>}}
UnreducedArrays ==
    {Array2(c) : c \in UNION {[1 .. n -> [1 .. 1 -> Samples]] : n \in 0 .. 2}}
PlotValues == PlotSeries \cup UnreducedArrays
PlotMappings == UNION {[ks -> PlotValues] : ks \in SUBSET SeriesKeys}

\* the mappings of the draw before the one that is followed
DrawnValues == {Array1(<<"1.0">>), Array1(<<"1.0", "2.5">>),
                Array2(<<(<<"1.0">>), (<<"2.5">>)>>)}
DrawnBefore == UNION {[ks -> DrawnValues] : ks \in SUBSET SeriesKeys}

\* a Line2D on the axes: the key it was plotted for, the column of the
\* plotted array it shows and its y-data
Line2D(key, col, y) == [key |-> key, col |-> col, y |-> y]

\* Axes.plot(arr): the y-data of the lines it creates, one line for an array
\* of one dimension, one line per column for an array of two
axes_plot(arr) ==
    IF arr.dim = 1 THEN <<arr>>
    ELSE [i \in DOMAIN arr.cols |-> Array1(arr.cols[i])]

\* TimeSeriesMPLWidget.__init__ before its draw(): no plots, no info text
NewWidget == [plots |-> <<>>, lines |-> {}, info |-> FALSE, err |-> ""]

\* the orders in which a set can be iterated
Orders(S) ==
    {o \in [1 .. Cardinality(S) -> S] :
        \A i, j \in DOMAIN o : i # j => o[i] # o[j]}

\* the loop over to_add: self._plots[key] = self.axes.plot(data[key])[0]
RECURSIVE AddPlots(_, _, _)
AddPlots(w, data, order) ==
    IF order = <<>> THEN w
    ELSE LET key == Head(order)
             drawn == axes_plot(data[key])
         IN  IF drawn = <<>> THEN [w EXCEPT !.err = "IndexError"]
             ELSE AddPlots(
                     [w EXCEPT !.plots = Extend(@, key, drawn[1]),
                               !.lines = @ \cup {Line2D(key, i, drawn[i]) :
                                                    i \in DOMAIN drawn}],
                     data, Tail(order))

\* TimeSeriesMPLWidget.draw() of widget w while the model's tsData is data;
\* order is the order in which the set to_add is iterated.  ~np.array_equal
\* is truthy whatever the arrays, so every kept line gets the new data
draw(w, data, order) ==
    IF DOMAIN data # {}
    THEN LET plot_keys == DOMAIN w.plots
             data_keys == DOMAIN data
             to_check == plot_keys \cap data_keys
             kept == [key \in to_check |-> data[key]]
             others == {l \in w.lines : ~(l.col = 1 /\ l.key \in plot_keys)}
             set == {Line2D(key, 1, data[key]) : key \in to_check}
             added == AddPlots([plots |-> kept, lines |-> others \cup set,
                                info |-> w.info, err |-> ""], data, order)
         IN  IF added.err # "" THEN added ELSE [added EXCEPT !.info = FALSE]
    ELSE [plots |-> <<>>, lines |-> {}, info |-> TRUE, err |-> ""]

\* the widget after the draw() of its construction on the mapping d
Drawn(d) == draw(NewWidget, d, CHOOSE o \in Orders(DOMAIN d) : TRUE)

DrawArgs == [before : DrawnBefore, tsData : PlotMappings]

----------------------------------------------------------------------------
(* The specification of the directly called functions *)

Pending(fn, arg) == [fn |-> fn, arg |-> arg, done |-> FALSE, res |-> <<>>]
Returned(c, res) == [c EXCEPT !.done = TRUE, !.res = res]

VoxelArgs == [cpos : Cursors, layer : ImageLayers, xscale : XScales]
PlotterArgs == [cpos : Cursors, layer : ImageLayers]
\* utils.DataTableModel.update() of a table that holds no frame yet: the
\* frame is built from the source's data as it is; any exception makes the
\* result False and leaves the table without a frame
DataTableModel_update(source_data) ==
    LET f == from_dict(source_data)
    IN  IF f.err = ""
        THEN [err |-> "", data |-> f.val, emitted |-> TRUE, rv |-> TRUE]
        ELSE [err |-> "", data |-> EmptyFrame, emitted |-> FALSE, rv |-> FALSE]

\* the texts of the items of a SelectorListModel, and the models of up to
\* MaxItems items
ItemTexts == {"3D", "4D"}
SearchTexts == ItemTexts \cup {""}
ItemLists == UNION {[1 .. n -> ItemTexts] : n \in 0 .. MaxItems}

\* SelectorListModel.get_item_idx_by_text(search_text): the row indices,
\* from 0, of the items with that text; the index itself when it is the
\* only one
get_item_idx_by_text(items, search_text) ==
    LET matches == Concat([i \in DOMAIN items |->
                       IF items[i] = search_text THEN <<i - 1>> ELSE <<>>])
    IN  IF Len(matches) = 1
        THEN [int |-> TRUE, index |-> matches[1], list |-> <<>>]
        ELSE [int |-> FALSE, index |-> 0, list |-> matches]

\* the truth value of the result: of an int, of a list
truth(result) == IF result.int THEN result.index # 0 ELSE result.list # <<>>

\* the vertex lists of one or two shapes of one or two vertices each
Vertices == {Vertex(z, p) : z \in 0 .. 1, p \in Coords}
VertexLists == {<<v>> : v \in Vertices} \cup {<<v, w>> : v \in Vertices, w \in Vertices}
ShapeLists == {<<a>> : a \in VertexLists} \cup {<<a, b>> : a \in VertexLists, b \in VertexLists}
IndexArgs == [layer : {SA, S4}, shapes : ShapeLists, source : {A3, A4, I3, I4}]

RoiArgs ==
    {a \in [step : UNION {PlanesOf(o) : o \in OuterShapes}, layer : RoiLayers,
            labels : LabelArrays, idx_shape : ShapeIndices,
            roi_mode : RoiModes, xscale : XScales] :
        a.step \in PlanesOf(a.layer.outer)}

\* no registry, and one call with its inputs that has not run yet
UtilInit ==
    /\ pool = {}
    /\ layers = <<>>
    /\ name = <<>>
    /\ geom = <<>>
    /\ ver = <<>>
    /\ rows = <<LivePlotItem>>
    /\ agg = "mean"
    /\ log = <<>>
    /\ detached = {}
    /\ selector = NoSelector
    /\ table = NoTable
    /\ \/ \E a \in VoxelArgs : call = Pending("extract_voxel_time_series", a)
       \/ \E a \in PlotterArgs :
             \/ call = Pending("_extract_voxel_time_series", a)
             \/ call = Pending("_plot_voxel_callback", a)
       \/ \E a \in RoiArgs : call = Pending("extract_ROI_time_series", a)
       \/ \E d \in Mappings : call = Pending("update", [tsData |-> d])
       \/ \E a \in IndexArgs : call = Pending("_extract_indices", a)
       \/ \E d \in Mappings : call = Pending("DataTableModel.update", [data |-> d])
       \/ \E it \in ItemLists : \E t \in SearchTexts :
             call = Pending("get_item_idx_by_text", [items |-> it, text |-> t])
       \/ \E a \in DrawArgs : call = Pending("draw", a)

registry == <<pool, layers, name, geom, ver, rows, agg, log>>

ExtractVoxel ==
    /\ call.fn = "extract_voxel_time_series" /\ ~call.done
    /\ call' = Returned(call, extract_voxel_time_series(
                   call.arg.cpos, call.arg.layer, call.arg.xscale))
    /\ UNCHANGED <<detached, registry, selector, table>>

PlotterExtractVoxel ==
    /\ call.fn = "_extract_voxel_time_series" /\ ~call.done
    /\ call' = Returned(call, VoxelPlotter_extract_voxel_time_series(
                   call.arg.cpos, call.arg.layer))
    /\ UNCHANGED <<detached, registry, selector, table>>

PlotVoxel ==
    /\ call.fn = "_plot_voxel_callback" /\ ~call.done
    /\ call' = Returned(call, plot_voxel_callback(call.arg.cpos, call.arg.layer))
    /\ UNCHANGED <<detached, registry, selector, table>>

ExtractROI ==
    /\ call.fn = "extract_ROI_time_series" /\ ~call.done
    /\ call' = Returned(call, extract_ROI_time_series(
                   call.arg.step, call.arg.layer, call.arg.labels,
                   call.arg.idx_shape, call.arg.roi_mode, call.arg.xscale))
    /\ UNCHANGED <<detached, registry, selector, table>>

TableUpdate ==
    /\ call.fn = "update" /\ ~call.done
    /\ call' = Returned(call, update(call.arg.tsData))
    /\ UNCHANGED <<detached, registry, selector, table>>

\* SelectionLayerItem._extract_indices of a shapes layer with the shapes of
\* these vertex lists, under the Source item of an image
ExtractShapeIndices ==
    /\ call.fn = "_extract_indices" /\ ~call.done
    /\ call' = Returned(call, ExtractIndices(
                   call.arg.layer,
                   [i \in DOMAIN call.arg.shapes |-> ShapeOf(call.arg.shapes[i])],
                   call.arg.source))
    /\ UNCHANGED <<detached, registry, selector, table>>

DataTableUpdate ==
    /\ call.fn = "DataTableModel.update" /\ ~call.done
    /\ call' = Returned(call, DataTableModel_update(call.arg.data))
    /\ UNCHANGED <<detached, registry, selector, table>>

GetItemIdxByText ==
    /\ call.fn = "get_item_idx_by_text" /\ ~call.done
    /\ call' = Returned(call, get_item_idx_by_text(call.arg.items, call.arg.text))
    /\ UNCHANGED <<detached, registry, selector, table>>

\* draw() of a widget that has drawn the mapping before, on dataChanged
Draw ==
    /\ call.fn = "draw" /\ ~call.done
    /\ \E order \in Orders(DOMAIN call.arg.tsData
                           \ DOMAIN Drawn(call.arg.before).plots) :
          call' = Returned(call, draw(Drawn(call.arg.before),
                                      call.arg.tsData, order))
    /\ UNCHANGED <<detached, registry, selector, table>>

UtilNext ==
    \/ ExtractVoxel
    \/ PlotterExtractVoxel
    \/ PlotVoxel
    \/ ExtractROI
    \/ TableUpdate
    \/ ExtractShapeIndices
    \/ DataTableUpdate
    \/ GetItemIdxByText
    \/ Draw

UtilSpec == UtilInit /\ [][UtilNext]_vars

----------------------------------------------------------------------------
(* _dock_widget.py: LayerSelector and VoxelPlotter *)

\* a 5-D image
W5 == Layer("W5", "image", 5, FALSE, 1)

\* the layers of the sessions with the LayerSelector
SelectorPool == {A3, A4, X2, XR, L3, W5}

\* TSPCheckBox(layer)
TSPCheckBox(layer) == [layer |-> layer, checked |-> FALSE]

\* isinstance(layer, Image)
IsImage(layer) == layer.type = "image"

add_cb_AnyDepth(cboxes, viewer_layers) ==
    LET reg_layers == {cboxes[i].layer : i \in DOMAIN cboxes}
    IN  cboxes \o Concat([i \in DOMAIN viewer_layers |->
            IF /\ viewer_layers[i] \notin reg_layers
               /\ IsImage(viewer_layers[i])
               /\ viewer_layers[i].ndim > 2
            THEN <<TSPCheckBox(viewer_layers[i])>> ELSE <<>>])

\* LayerSelector._add_cb(event): a new unchecked box, in the order of
\* viewer.layers, for every Image layer of 3 or 4 dimensions that has none
add_cb(cboxes, viewer_layers) ==
    LET reg_layers == {cboxes[i].layer : i \in DOMAIN cboxes}
    IN  cboxes \o Concat([i \in DOMAIN viewer_layers |->
            IF /\ viewer_layers[i] \notin reg_layers
               /\ IsImage(viewer_layers[i])
               /\ 5 > viewer_layers[i].ndim /\ viewer_layers[i].ndim > 2
            THEN <<TSPCheckBox(viewer_layers[i])>> ELSE <<>>])

\* LayerSelector._remove_cb(event): the loop walks self._cboxes by position
\* while it removes from it, so the box after a removed one is not looked at
RECURSIVE remove_cb(_, _, _)
remove_cb(cboxes, viewer_layers, i) ==
    IF i > Len(cboxes) THEN cboxes
    ELSE IF cboxes[i].layer \notin Range(viewer_layers)
    THEN remove_cb(RemoveAt(cboxes, i), viewer_layers, i + 1)
    ELSE remove_cb(cboxes, viewer_layers, i + 1)

check_states_All(cboxes) == [i \in DOMAIN cboxes |-> cboxes[i].layer]

\* LayerSelector._check_states(event): [cb.layer for cb in self._cboxes if
\* cb.isChecked()]
check_states(cboxes) ==
    Concat([i \in DOMAIN cboxes |->
        IF cboxes[i].checked THEN <<cboxes[i].layer>> ELSE <<>>])

\* LayerSelector.__init__ and VoxelPlotter.__init__ on one viewer: both hold
\* the Sync object of get_sync(); signal is what the last event emitted on it
DockSelector(viewer_layers) ==
    [docked |-> TRUE,
     cboxes |-> add_cb(<<>>, viewer_layers),
     selected_layers |-> <<>>,
     plotter_layers |-> <<>>,
     signal |-> <<>>]

\* viewer.layers.append(l) and the inserted event
SelectorLayerInserted(l) ==
    /\ selector.docked
    /\ l \notin Range(layers)
    /\ layers' = Append(layers, l)
    /\ selector' = [selector EXCEPT !.cboxes = add_cb(@, layers'),
                                    !.signal = <<>>]
    /\ log' = <<LogE("event", l.id, "", "inserted")>>
    /\ UNCHANGED <<detached, pool, name, geom, ver, rows, agg, call, table>>

\* viewer.layers.remove(l) and the removed event
SelectorLayerRemoved(l) ==
    /\ selector.docked
    /\ \E i \in DOMAIN layers :
          /\ layers[i] = l
          /\ layers' = RemoveAt(layers, i)
    /\ selector' = [selector EXCEPT !.cboxes = remove_cb(@, layers', 1),
                                    !.signal = <<>>]
    /\ log' = <<LogE("event", l.id, "", "removed")>>
    /\ UNCHANGED <<detached, pool, name, geom, ver, rows, agg, call, table>>

\* the user clicks box i: stateChanged calls _check_states, which emits the
\* list on sync.signal; VoxelPlotter._update_layer_selection stores it
CheckBoxToggled(i) ==
    /\ selector.docked
    /\ i \in DOMAIN selector.cboxes
    /\ LET cboxes == [selector.cboxes EXCEPT ![i].checked = ~@]
           selected_layers == check_states(cboxes)
       IN  selector' = [selector EXCEPT !.cboxes = cboxes,
                                        !.selected_layers = selected_layers,
                                        !.signal = <<selected_layers>>,
                                        !.plotter_layers = selected_layers]
    /\ log' = <<LogE("event", selector.cboxes[i].layer.id, "", "stateChanged")>>
    /\ UNCHANGED <<detached, pool, layers, name, geom, ver, rows, agg, call, table>>

----------------------------------------------------------------------------
(* dock_widgets.py: TimeSeriesTableView *)

\* Signal.connect(slot): what is not callable is refused
connect(slot) == IF slot.callable THEN Ok(<<slot>>) ELSE Raise("TypeError")

\* TimeSeriesTableView.__init__ over a source whose tsData is d: a table
\* model with the empty frame, then _setUpSignals, whose
\* self.source_model.dataChanged.connect(self.model.update()) calls update at
\* once and hands its value to connect
TimeSeriesTableView(d) ==
    LET r == update(d)
        c == IF r.err # "" THEN Raise(r.err)
             ELSE connect([callable |-> FALSE, value |-> r.rv])
    IN  [requested |-> TRUE,
         source |-> d,
         frame |-> r.data,
         slots |-> c.val,
         err |-> c.err,
         notified |-> FALSE]

\* the source's tsData becomes d and the source emits dataChanged: the
\* connected slots run
SourceNotified(d) ==
    /\ table.requested
    /\ table' = [table EXCEPT
                    !.source = d,
                    !.notified = TRUE,
                    !.frame = IF table.slots # <<>> /\ update(d).rv
                              THEN update(d).data ELSE @]
    /\ log' = <<LogE("event", "", "", "dataChanged")>>
    /\ UNCHANGED <<detached, pool, layers, name, geom, ver, rows, agg, call, selector>>

----------------------------------------------------------------------------
(* The specification of the widgets *)

\* the two widgets of _dock_widget.py docked to a viewer that holds some
\* layers, or a table view requested over a source with some tsData
WidgetInit ==
    /\ pool = SelectorPool
    /\ name = <<>>
    /\ geom = <<>>
    /\ ver = <<>>
    /\ rows = <<LivePlotItem>>
    /\ agg = "mean"
    /\ log = <<>>
    /\ detached = {}
    /\ call = NoCall
    /\ \/ /\ layers \in ListsOf(pool)
          /\ selector = DockSelector(layers)
          /\ table = NoTable
       \/ /\ layers = <<>>
          /\ selector = NoSelector
          /\ \E d \in Mappings : table = TimeSeriesTableView(d)

WidgetNext ==
    \/ \E l \in pool : SelectorLayerInserted(l)
    \/ \E l \in pool : SelectorLayerRemoved(l)
    \/ \E i \in 1 .. Cardinality(pool) : CheckBoxToggled(i)
    \/ \E d \in Mappings : SourceNotified(d)

WidgetSpec == WidgetInit /\ [][WidgetNext]_vars

----------------------------------------------------------------------------
(* models.py: ItemTypeFilterProxyModel *)

\* QtGui.QStandardItem.UserType
UserType == 1000

\* the filter type that LayerSelector.__init__ sets on its proxy model
LayerSelectorFilterType == 1003

\* SourceLayerItem.type, SelectionLayerItem.type and LivePlotItem.type
type(kind) ==
    CASE kind = "source" -> UserType + 1
      [] kind = "selection" -> UserType + 2
      [] kind = "live" -> UserType + 3

\* the invalid QModelIndex, the parent of the rows of the top level
NoParent == 0

\* ItemTypeFilterProxyModel.filterAcceptsRow(sourceRow, sourceParent), rows
\* counted from 0 as Qt counts them and sourceParent the row of the parent
\* item; sourceModel().item(sourceRow, 0) is the item of that row of the top
\* level whatever sourceParent is, and None where the top level is shorter
filterAcceptsRow(rws, ftype, sourceRow, sourceParent) ==
    IF sourceRow + 1 \notin DOMAIN rws THEN Raise("AttributeError")
    ELSE Ok(type(rws[sourceRow + 1].kind) # ftype)

----------------------------------------------------------------------------
(* The registry with the items it has removed *)

\* the most removed items that are followed
MaxDetached == 2

\* a SelectionLayerItem that removeRow has taken out of the model: Qt has
\* deleted the item, the Python object lives on in the closures of the two
\* lambdas of _connect_callbacks, which nothing has disconnected: __del__
\* runs once no reference is left, and the emitters of the layers hold the
\* lambdas.  pl: _pl_ec is connected to the data event of the item's layer;
\* pil: _pil_ec is connected to the data event of the parent's layer
DetachedItem(item, child) ==
    [src |-> item.layer, layer |-> child.layer, indices |-> child.indices,
     pl |-> TRUE, pil |-> TRUE]

\* the children that _layer_removed_callback takes out of the model
RemovedItems(rws, layer, nm) ==
    IF layer.type = "image"
    THEN LET found == findItems(rws, nm, nm[layer.id])
         IN  IF found = <<>> THEN {}
             ELSE {DetachedItem(rws[found[1]], c) :
                      c \in Range(rws[found[1]].children)}
    ELSE IF layer.type \in {"points", "shapes"}
    THEN UNION {{DetachedItem(rws[r], c) :
                    c \in {x \in Range(rws[r].children) :
                              nm[x.layer.id] = nm[layer.id]}} :
                r \in DOMAIN rws}
    ELSE {}

\* updateTSData of a detached item z: _extract_ts_data asks self.model() for
\* the first index of a shapes layer, updateTSData asks it after the series
\* are stored; on the deleted Qt item self.model() raises RuntimeError
DetachedUpdateTSData(z) ==
    IF z.layer.type = "shapes" /\ z.indices # <<>>
    THEN <<LogE("raise", z.src.id, z.layer.id, "RuntimeError")>>
    ELSE <<LogE("ts", z.src.id, z.layer.id, "detached"),
           LogE("raise", z.src.id, z.layer.id, "RuntimeError")>>

\* the emitter calls the lambda of the detached item z: updateTSIndices
\* (what = "indices") or updateTSData (what = "data").  The emitter
\* disconnects a callback that fails on a deleted Qt object and goes on; any
\* other exception leaves the emitter
InvokeDetached(z, what, gm) ==
    IF what = "indices"
    THEN LET new_indices == ExtractIndices(z.layer, gm[z.layer.id], z.src)
         IN  IF new_indices.err # ""
             THEN [err |-> new_indices.err, item |-> z,
                   log |-> <<LogE("raise", z.src.id, z.layer.id,
                                  new_indices.err)>>]
             ELSE LET z1 == [z EXCEPT !.indices = new_indices.val]
                  IN  [err |-> "", item |-> [z1 EXCEPT !.pl = FALSE],
                       log |-> <<LogE("indices", z.src.id, z.layer.id,
                                      "detached")>>
                               \o DetachedUpdateTSData(z1)
                               \o <<LogE("disconnect", z.src.id, z.layer.id,
                                         what)>>]
    ELSE [err |-> "", item |-> [z EXCEPT !.pil = FALSE],
          log |-> DetachedUpdateTSData(z)
                  \o <<LogE("disconnect", z.src.id, z.layer.id, what)>>]

\* the detached items whose callback is connected to the data event of l
ConnectedDetached(items, l, what) ==
    {z \in items : \/ what = "indices" /\ z.layer = l /\ z.pl
                   \/ what = "data" /\ z.src = l /\ z.pil}

\* the emitter goes through the callbacks of the detached items in order; an
\* item without a connected callback is no longer followed
RECURSIVE DispatchDetached(_, _, _, _, _)

\* what the call of the callback of z has done, and the callbacks after it
AfterDetached(items, order, what, gm, lg, done) ==
    LET z == Head(order)
        kept == IF done.item.pl \/ done.item.pil THEN {done.item} ELSE {}
        items1 == (items \ {z}) \cup kept
    IN  IF done.err # ""
        THEN [items |-> items1, log |-> lg \o done.log]
        ELSE DispatchDetached(items1, Tail(order), what, gm, lg \o done.log)

DispatchDetached(items, order, what, gm, lg) ==
    IF order = <<>> THEN [items |-> items, log |-> lg]
    ELSE AfterDetached(items, order, what, gm, lg,
                       InvokeDetached(Head(order), what, gm))

\* the callbacks of the detached items follow those of the items in the
\* model (live: what these have done) unless an exception has left the
\* emitter
AfterLive(live, items, order, what, gm) ==
    IF \E i \in DOMAIN live.log : live.log[i].op = "raise"
    THEN [rows |-> live.rows, items |-> items, log |-> live.log]
    ELSE [rows |-> live.rows] @@ DispatchDetached(items, order, what, gm, live.log)

\* the data event of layer l reaches the callbacks of the items in the model
\* and then those of the detached items
DispatchAll(rws, items, l, what, gm, vr, aggFunc, order) ==
    AfterLive(Dispatch(rws, Connected(rws, l, what), what, gm, vr, aggFunc, <<>>),
              items, order, what, gm)

\* viewer.layers.remove(l), then the removed event: the rows are removed,
\* their callbacks stay connected
LayerRemovedDetaching(l) ==
    /\ l \in Members
    /\ LET done == layer_removed_callback(rows, l, name)
       IN  /\ rows' = done.rows
           /\ log' = <<LogE("event", l.id, "", "removed")>> \o RaiseLog(done.err)
    /\ detached' = detached \cup RemovedItems(rows, l, name)
    /\ Cardinality(detached') <= MaxDetached
    /\ layers' = SelectSeq(layers, LAMBDA x : x # l)
    /\ name' = Restrict(name, DOMAIN name \ {l.id})
    /\ geom' = Restrict(geom, DOMAIN geom \ {l.id})
    /\ ver' = Restrict(ver, DOMAIN ver \ {l.id})
    /\ UNCHANGED <<call, selector, table, pool, agg>>

\* the data event of a points or shapes member
GeometryChangedDetached(l) ==
    /\ l \in Members /\ IsSelectionLayer(l)
    /\ \E g \in GeomsOf(l) :
       \E order \in Orders(ConnectedDetached(detached, l, "indices")) :
       \E done \in {DispatchAll(rows, detached, l, "indices",
                                 [geom EXCEPT ![l.id] = g], ver, agg, order)} :
          /\ geom' = [geom EXCEPT ![l.id] = g]
          /\ rows' = done.rows
          /\ detached' = done.items
          /\ log' = <<LogE("event", l.id, "", "geometry")>> \o done.log
    /\ UNCHANGED <<call, selector, table, pool, layers, name, ver, agg>>

\* the data event of an image that has a Source item
ImageDataChangedDetached(l) ==
    /\ l \in Members /\ l.id \in DOMAIN ver
    /\ \E v \in VersionsOf(l) :
       \E order \in Orders(ConnectedDetached(detached, l, "data")) :
       \E done \in {DispatchAll(rows, detached, l, "data", geom,
                                 [ver EXCEPT ![l.id] = v], agg, order)} :
          /\ ver' = [ver EXCEPT ![l.id] = v]
          /\ rows' = done.rows
          /\ detached' = done.items
          /\ log' = <<LogE("event", l.id, "", "data")>> \o done.log
    /\ UNCHANGED <<call, selector, table, pool, layers, name, geom, agg>>

\* a session of two images, a points layer and a shapes layer
RemovalInit == Init /\ pool = {I3, I4, P2, S4}

\* the insertions, the removals and the data events of the layers; the
\* callbacks do not read names, check states or the cursor
RemovalNext ==
    \/ \E l \in pool : LayerInserted(l)
    \/ \E l \in pool : LayerRemovedDetaching(l)
    \/ \E l \in pool : GeometryChangedDetached(l)
    \/ \E l \in pool : ImageDataChangedDetached(l)

RemovalSpec == RemovalInit /\ [][RemovalNext]_vars

----------------------------------------------------------------------------
(* The registry with points that move *)

\* the places the user drags the points of a points layer to: inside both
\* Sources, inside the larger Source only, and outside both
PointGeoms == [1 .. 2 -> 0 .. MaxCoord + 1]

\* the data event of a points layer after the user moved its points, none
\* added and none deleted: every connected updateTSIndices runs
PointsMoved(l) ==
    /\ l \in Members /\ l.type = "points"
    /\ \E g \in PointGeoms :
       \E done \in {Dispatch(rows, Connected(rows, l, "indices"), "indices",
                              [geom EXCEPT ![l.id] = g], ver, agg, <<>>)} :
          /\ Len(g) = Len(geom[l.id])
          /\ geom' = [geom EXCEPT ![l.id] = g]
          /\ rows' = done.rows
          /\ log' = <<LogE("event", l.id, "", "geometry")>> \o done.log
    /\ UNCHANGED <<detached, call, selector, table, pool, layers, name, ver, agg>>

\* a session with two images, a points layer and a shapes layer
PointsInit == Init /\ pool = {I3, I4, P2, S4}

PointsNext ==
    \/ \E l \in pool : LayerInserted(l)
    \/ \E l \in pool : PointsMoved(l)
    \/ \E r \in DOMAIN rows : SourceToggled(r)
    \/ \E r \in DOMAIN rows : \E j \in DOMAIN rows[r].children : SelectionToggled(r, j)

PointsSpec == PointsInit /\ [][PointsNext]_vars

----------------------------------------------------------------------------
(* The vocabulary of the properties *)

\* the Selection nodes: <<row of the Source item, row of the child>>
Nodes(rws) ==
    UNION {{<<r, j>> : j \in DOMAIN rws[r].children} :
           r \in {x \in DOMAIN rws : rws[x].kind = "source"}}

Child(rws, n) == rws[n[1]].children[n[2]]

BothChecked(rws, n) == rws[n[1]].checked /\ Child(rws, n).checked

\* the (Source, Selection, sub-index) triples both of whose nodes are checked
Triples(rws) ==
    UNION {{<<n[1], n[2], i>> : i \in DOMAIN Child(rws, n).ts} :
           n \in {m \in Nodes(rws) : BothChecked(rws, m)}}

\* the identifier key of a triple
KeyOf(rws, nm, t) ==
    nm[rws[t[1]].layer.id] \o "_" \o nm[Child(rws, t).layer.id]
        \o "_" \o ToString(t[3] - 1)

\* entry e is the series of triple t
From(rws, e, t) ==
    /\ e.src = rws[t[1]].layer.id
    /\ e.sel = Child(rws, t).layer.id
    /\ e.idx = t[3] - 1
    /\ e.ts = Child(rws, t).ts[t[3]]

\* triple u is visited no later than triple t
Before(u, t) ==
    \/ u[1] < t[1]
    \/ u[1] = t[1] /\ u[2] < t[2]
    \/ u[1] = t[1] /\ u[2] = t[2] /\ u[3] <= t[3]

\* the keys of the entries that are not live-cursor entries
SelectionKeys(d) == {k \in DOMAIN d : d[k].src # ""}

\* the identifier keys of node n
NodeKeys(rws, nm, n) ==
    {KeyOf(rws, nm, <<n[1], n[2], i>>) : i \in DOMAIN Child(rws, n).ts}

\* d holds every series of node n
HasEntries(d, rws, n) ==
    \A i \in DOMAIN Child(rws, n).ts :
        \E k \in DOMAIN d : From(rws, d[k], <<n[1], n[2], i>>)

\* d holds some entry that comes from node n
AnyEntry(d, rws, n) ==
    \E k \in DOMAIN d :
        d[k].src = rws[n[1]].layer.id /\ d[k].sel = Child(rws, n).layer.id

\* another Selection node carries the identifier of node n
Shared(rws, nm, n) ==
    \E m \in Nodes(rws) \ {n} :
        Identifier(rws[m[1]], Child(rws, m), nm)
            = Identifier(rws[n[1]], Child(rws, n), nm)

\* tsData once the check box of node n is cleared
Unchecked(rws, nm, n) ==
    TsData([rws EXCEPT ![n[1]].children[n[2]].checked = FALSE], nm)

----------------------------------------------------------------------------
(* C1 *)

\* C1, as stated: tsData holds exactly one entry for every checked
\* (Source, Selection, sub-index) triple, every entry that is not a
\* live-cursor entry is the series of such a triple, and two distinct
\* triples never have the same identifier key.
C1_OneEntryPerTriple ==
    /\ \A t \in Triples(rows) :
          Cardinality({k \in DOMAIN tsData : From(rows, tsData[k], t)}) = 1
    /\ \A k \in SelectionKeys(tsData) :
          \E t \in Triples(rows) : From(rows, tsData[k], t)
    /\ \A t, u \in Triples(rows) :
          t # u => KeyOf(rows, name, t) # KeyOf(rows, name, u)

\* C1, amended: the keys of tsData (live-cursor entries aside) are exactly
\* the identifier strings of the checked triples; the entry under a key is
\* the series of the last visited checked triple with that identifier, so a
\* triple whose identifier no other triple has owns its entry, and triples
\* with one identifier share one entry.
C1_OneEntryPerIdentifier ==
    /\ SelectionKeys(tsData) = {KeyOf(rows, name, t) : t \in Triples(rows)}
    /\ \A k \in SelectionKeys(tsData) :
          \E t \in Triples(rows) :
             /\ KeyOf(rows, name, t) = k
             /\ From(rows, tsData[k], t)
             /\ \A u \in Triples(rows) : KeyOf(rows, name, u) = k => Before(u, t)
    /\ \A n \in Nodes(rows) : Child(rows, n).layer \in Members
                              /\ rows[n[1]].layer \in Members

\* two checked triples of different Sources with one identifier, next to a
\* Selection that has two series
C1_Witness ==
    /\ \E t, u \in Triples(rows) :
          t[1] # u[1] /\ KeyOf(rows, name, t) = KeyOf(rows, name, u)
    /\ \E t \in Triples(rows) : t[3] = 2
    /\ Cardinality(SelectionKeys(tsData)) = 2

----------------------------------------------------------------------------
(* C2 *)

----------------------------------------------------------------------------
(* C3, C4: insertion *)

\* a qualifying image layer
Qualifies(l) == l.type = "image" /\ l.ndim > 2 /\ ~l.rgb

\* the dimensionality of selection layer sel is compatible with image img:
\* it is at most one dimension smaller
Compatible(sel, img) == sel.ndim >= img.ndim - 1

\* the handler of the last event was that of event kind on layer l
Handled(kind, l) == log'[1] = LogE("event", l.id, "", kind)

\* the rows of the children of item that wrap layer l
ChildrenOf(item, l) == {j \in DOMAIN item.children : item.children[j].layer = l}

\* C3: the inserted event of a qualifying image adds exactly one Source node,
\* unchecked, with exactly one child for every points or shapes layer of the
\* layer list of compatible dimensionality, and changes no other node.
C3_InsertImage ==
    [][\A l \in pool :
        Handled("inserted", l) /\ Qualifies(l) =>
            \E p \in DOMAIN rows' :
               /\ rows'[p].kind = "source"
               /\ rows'[p].layer = l
               /\ ~rows'[p].checked
               /\ \A j \in DOMAIN rows'[p].children :
                     LET s == rows'[p].children[j].layer
                     IN  s \in Range(layers') /\ s.type \in {"points", "shapes"}
               /\ \A s \in Range(layers') :
                     IF s.type \in {"points", "shapes"} /\ Compatible(s, l)
                     THEN Cardinality(ChildrenOf(rows'[p], s)) = 1
                     ELSE ChildrenOf(rows'[p], s) = {}
               /\ RemoveAt(rows', p) = rows
      ]_vars

\* C4: the inserted event of a points or shapes layer adds exactly one child
\* under every Source node of compatible dimensionality, nothing under the
\* other Source nodes and the live-cursor node, and leaves no Source with two
\* children for the layer.
C4_InsertSelection ==
    [][\A l \in pool :
        Handled("inserted", l) /\ l.type \in {"points", "shapes"} =>
            /\ Len(rows') = Len(rows)
            /\ \A r \in DOMAIN rows :
                  IF rows[r].kind = "source" /\ Compatible(l, rows[r].layer)
                  THEN /\ Cardinality(ChildrenOf(rows'[r], l)) = 1
                       /\ \E j \in ChildrenOf(rows'[r], l) :
                             [rows'[r] EXCEPT !.children = RemoveAt(@, j)] = rows[r]
                  ELSE rows'[r] = rows[r]
      ]_vars

----------------------------------------------------------------------------
(* C5, C6: removal *)

C6_RemoveSelection ==
    [][\A l \in pool :
        Handled("removed", l) /\ l.type \in {"points", "shapes"} =>
           /\ Len(rows') = Len(rows)
           /\ \A r \in DOMAIN rows :
                 rows'[r] = [rows[r] EXCEPT
                                !.children = SelectSeq(@, LAMBDA c : c.layer # l)]
           /\ LET before == tsData
                  after == tsData'
              IN  /\ DOMAIN after \subseteq DOMAIN before
                  /\ \A k \in DOMAIN before :
                        before[k].sel # l.id =>
                            k \in DOMAIN after /\ after[k] = before[k]
                  /\ \A k \in DOMAIN after : after[k].sel # l.id
      ]_vars

\* the points layer was removed; the 3-D image keeps the child of the shapes
\* layer, checked, with its entry in tsData
C6_Witness ==
    /\ log = <<LogE("event", "P2", "", "removed")>>
    /\ \E n \in Nodes(rows) :
          /\ rows[n[1]].layer = I3 /\ Child(rows, n).layer = S4
          /\ BothChecked(rows, n)
          /\ HasEntries(tsData, rows, n)
    /\ \A n \in Nodes(rows) : Child(rows, n).layer # P2

----------------------------------------------------------------------------
(* C7, C8: what the nodes wrap *)

C8_SourcesQualify ==
    /\ \A r \in DOMAIN rows :
          rows[r].kind = "source" =>
              /\ rows[r].layer.type = "image"
              /\ ~rows[r].layer.rgb
              /\ rows[r].layer.ndim >= 3
    /\ \A l \in Members :
          ~(l.type = "image" /\ ~l.rgb /\ l.ndim >= 3) =>
              \A r \in DOMAIN rows : rows[r].layer # l

\* the RGB image was inserted after the 2-D image and the labels layer; the
\* only Source node is that of the 3-D image
C8_Witness ==
    /\ log = <<LogE("event", "XR", "", "inserted")>>
    /\ {X2, XR, L3, A3} \subseteq Members
    /\ Len(rows) = 2
    /\ rows[1].kind = "source" /\ rows[1].layer = A3

----------------------------------------------------------------------------
(* C9, C10: recomputation *)

\* C9: an updateTSIndices that derives the indices it has cached neither
\* recomputes the cached time series nor notifies.
C9_OnlyIfChanged ==
    \A i \in DOMAIN log :
        log[i].op = "indices" /\ log[i].info = "same" =>
            ~\E j \in DOMAIN log :
                /\ j > i
                /\ log[j].op \in {"ts", "emit"}
                /\ log[j].src = log[i].src
                /\ log[j].sel = log[i].sel

\* the series of child under item for version v of the item's image
Recomputed(item, child, v, aggFunc) ==
    [i \in DOMAIN child.indices |->
        [img |-> item.layer.id, ver |-> v, vox |-> child.indices[i],
         red |-> IF child.layer.type = "shapes" THEN aggFunc ELSE "none"]]

----------------------------------------------------------------------------
(* C11: the order of the steps of one handler *)

\* entries i and j of the log are about the same Selection node
SameNode(i, j) == log[i].src = log[j].src /\ log[i].sel = log[j].sel

\* C11: in the handling of one event every index update of a Selection is
\* followed at once by the storing of its series and then by its
\* notification; a notification of a Selection comes directly after the
\* storing of its series, so none lies between index and value update.
C11_IndicesValuesNotify ==
    /\ \A i \in DOMAIN log :
          log[i].op = "indices" =>
              /\ i + 2 \in DOMAIN log
              /\ log[i + 1].op = "ts" /\ SameNode(i, i + 1)
              /\ log[i + 2].op = "emit" /\ SameNode(i, i + 2)
    /\ \A i \in DOMAIN log :
          log[i].op = "emit" /\ log[i].sel # "" =>
              /\ i - 1 \in DOMAIN log
              /\ log[i - 1].op = "ts" /\ SameNode(i, i - 1)
    /\ \A i \in DOMAIN log :
          log[i].op = "ts" /\ log[1].info = "geometry" =>
              /\ i - 1 \in DOMAIN log
              /\ log[i - 1].op = "indices" /\ SameNode(i, i - 1)

\* a geometry event that changed the indices of the Selections of one shapes
\* layer under two Sources
C11_Witness ==
    /\ log[1] = LogE("event", "SA", "", "geometry")
    /\ Len(log) = 7
    /\ log[2].info = "changed" /\ log[5].info = "changed"
    /\ log[2].src # log[5].src

----------------------------------------------------------------------------
(* C12: renaming *)

\* C12: a name event of a layer changes the name of that layer only, so the
\* text of the nodes wrapping it and the identifiers made of it; the rows,
\* their children, layers, check states, indices and series stay as they
\* are, and a change notification is emitted.
C12_RenameOnlyText ==
    [][\A l \in pool :
        Handled("name", l) =>
           /\ rows' = rows
           /\ layers' = layers /\ geom' = geom /\ ver' = ver
           /\ name'[l.id] # name[l.id]
           /\ \A x \in DOMAIN name : x # l.id => name'[x] = name[x]
           /\ DOMAIN name' = DOMAIN name
           /\ \E i \in DOMAIN log' : log'[i].op = "emit"
           /\ \A r \in DOMAIN rows :
                 /\ rows[r].layer = l => Display(rows'[r], name') = name'[l.id]
                 /\ rows[r].kind = "source" /\ rows[r].layer # l =>
                       Display(rows'[r], name') = Display(rows[r], name)
           /\ \A n \in Nodes(rows) :
                 Identifier(rows'[n[1]], Child(rows', n), name') =
                     name'[rows[n[1]].layer.id] \o "_"
                         \o name'[Child(rows, n).layer.id]
      ]_vars

\* the 3-D image was renamed while its Source was checked with a checked
\* child: the key in tsData carries the new name
C12_Witness ==
    /\ log[1] = LogE("event", "A3", "", "name")
    /\ name["A3"] = "e"
    /\ \E n \in Nodes(rows) :
          /\ rows[n[1]].layer = A3 /\ BothChecked(rows, n)
          /\ Child(rows, n).ts # <<>>
          /\ "e_nSA_0" \in DOMAIN tsData

----------------------------------------------------------------------------
(* C13: a failed index derivation *)

\* the handler's log has an entry op about the node of row item and child
Logged(lg, op, item, child) ==
    \E i \in DOMAIN lg :
        /\ lg[i].op = op
        /\ lg[i].src = item.layer.id
        /\ lg[i].sel = child.layer.id

\* C13: a Selection whose index derivation raises in a geometry event keeps
\* its cached indices and its cached series, all of them, and gets no
\* notification.
C13_FailedDerivationKeepsCache ==
    [][\A l \in pool :
        Handled("geometry", l) =>
           /\ Nodes(rows') = Nodes(rows)
           /\ \A n \in Nodes(rows) :
                 Logged(log', "raise", rows[n[1]], Child(rows, n)) =>
                    /\ Child(rows', n) = Child(rows, n)
                    /\ ~Logged(log', "emit", rows[n[1]], Child(rows, n))
                    /\ ~Logged(log', "ts", rows[n[1]], Child(rows, n))
                    /\ ~Logged(log', "indices", rows[n[1]], Child(rows, n))
      ]_vars

\* the shapes layer got a planar shape and one that spans two planes: the
\* derivation for its Selection under the 4-D image raised, and the Selection
\* still has the indices and the series of the shape it had before
C13_Witness ==
    /\ log = <<LogE("event", "SA", "", "geometry"),
               LogE("raise", "A4", "SA", "NonPlanarShape")>>
    /\ geom["SA"] = <<Shape(TRUE, {0}), Shape(FALSE, {0})>>
    /\ \E n \in Nodes(rows) :
          /\ rows[n[1]].layer = A4 /\ Child(rows, n).layer = SA
          /\ Child(rows, n).indices = <<{0, 1}>>
          /\ Len(Child(rows, n).ts) = 1

----------------------------------------------------------------------------
(* C14: selections that select nothing *)

\* C14: every entry of tsData is the series of at least one voxel: a point
\* out of bounds and a shape with an empty index set have no key.
C14_NoEntryWithoutVoxels ==
    \A k \in DOMAIN tsData : tsData[k].ts.vox # {}

----------------------------------------------------------------------------
(* C15: the live cursor *)

\* the row of the live-cursor node
LiveRow(rws) == CHOOSE r \in DOMAIN rws : rws[r].kind = "live"

\* the voxel series at position c of the checked Sources that contain c, in
\* row order
SeriesAt(rws, vr, c) ==
    Concat([r \in DOMAIN rws |->
        IF /\ rws[r].kind = "source" /\ rws[r].checked
           /\ 0 <= c /\ c < rws[r].layer.extent
        THEN <<[img |-> rws[r].layer.id, ver |-> vr[rws[r].layer.id],
                vox |-> {c}, red |-> "none"]>>
        ELSE <<>>])

\* C15: a mouse move with Shift held replaces the series of the live-cursor
\* node by the voxel series, at the floored cursor position, of exactly the
\* checked Sources whose bounds contain it, in row order; the node keeps the
\* position and no indices, and no other row changes.
C15_LiveSeriesFromScratch ==
    [][\A h \in Halves :
        log'[1] = LogE("event", "", ToString(h), "mouse Shift") =>
           LET r == LiveRow(rows)
               c == IF h % 2 = 0 THEN h \div 2 ELSE (h - 1) \div 2
           IN  /\ Len(rows') = Len(rows)
               /\ \A q \in DOMAIN rows : q # r => rows'[q] = rows[q]
               /\ rows'[r].kind = "live"
               /\ rows'[r].cpos = <<c>>
               /\ rows'[r].ts = SeriesAt(rows, ver, c)
               /\ DOMAIN rows'[r] = {"kind", "layer", "checked", "children",
                                     "ts", "cpos"}
               /\ Logged(log', "emit", rows[r], [layer |-> NoLayer])
      ]_vars

\* Shift was held at position 1.5 while both Sources were checked: only the
\* 4-D image contains voxel 1, and the node holds its series alone
C15_Witness ==
    /\ log[1] = LogE("event", "", "3", "mouse Shift")
    /\ Len(rows) = 3
    /\ rows[1].checked /\ rows[2].checked
    /\ rows[1].layer = A3 /\ rows[2].layer = A4
    /\ rows[3].cpos = <<1>>
    /\ Len(rows[3].ts) = 1
    /\ rows[3].ts[1].img = "A4"

----------------------------------------------------------------------------
(* C16 - C20: the directly called functions *)

\* the call of fn has returned
Done(fn) == call.fn = fn /\ call.done

\* n is the integer nearest to the coordinate of h halves, the even one of
\* the two when h lies halfway between them
IsRounded(n, h) ==
    \/ 2 * n = h
    \/ (2 * n = h + 1 \/ 2 * n = h - 1) /\ n % 2 = 0

\* the index a cursor position maps to: every layer-space coordinate rounded
MappedIndex(layer, cpos) ==
    [i \in DOMAIN cpos |->
        CHOOSE n \in -2 .. MaxSide + 1 :
            IsRounded(n, cpos[i] - 2 * layer.translate)]

\* the index lies inside the array of that shape
Inside(ind, shape) == \A i \in DOMAIN shape : ind[i] \in 0 .. shape[i] - 1

\* data[:, i1, ..., in]: the markers of all time points at the spatial part
\* of the index, in order
StoredSeries(shape, ind) == [t \in 1 .. shape[1] |-> <<t - 1, ind[2], ind[3]>>]

\* C16: for every cursor position whose mapped index lies inside the array,
\* extract_voxel_time_series and VoxelPlotter._extract_voxel_time_series
\* return that index and, as values, exactly the series stored at the
\* index's spatial part, all time points in order.
C16_VoxelSeries ==
    /\ Done("extract_voxel_time_series") =>
          LET ind == MappedIndex(call.arg.layer, call.arg.cpos)
          IN  Inside(ind, call.arg.layer.shape) =>
                 /\ call.res.ind = ind
                 /\ call.res.vts # None
                 /\ call.res.vts[2] = StoredSeries(call.arg.layer.shape, ind)
    /\ Done("_extract_voxel_time_series") =>
          LET ind == MappedIndex(call.arg.layer, call.arg.cpos)
          IN  Inside(ind, call.arg.layer.shape) =>
                 /\ call.res.ind = ind
                 /\ call.res.vts = StoredSeries(call.arg.layer.shape, ind)

\* the cursor (0.0, 1.5, 2.5) on an untranslated (2, 3, 3) image maps to the
\* index (0, 2, 2); the series stored at [:, 2, 2] is returned
C16_Witness ==
    /\ Done("extract_voxel_time_series")
    /\ call.arg.cpos = <<0, 3, 5>>
    /\ call.arg.layer = [shape |-> <<2, 3, 3>>, translate |-> 0]
    /\ call.res.ind = <<0, 2, 2>>
    /\ call.res.vts[2] = <<(<<0, 2, 2>>), (<<1, 2, 2>>)>>

\* the index has a negative or overflowing component on a spatial axis
OffImage(ind, shape) ==
    \E i \in 2 .. Len(shape) : ind[i] < 0 \/ ind[i] >= shape[i]

\* the cursor position the plot callback hands on: every coordinate rounded
RoundedCursor(cpos) ==
    [i \in DOMAIN cpos |->
        2 * (CHOOSE n \in -1 .. MaxSide + 1 : IsRounded(n, cpos[i]))]

\* C17: for every cursor position that maps to a negative or overflowing
\* index on a spatial axis, the extraction returns None as its values and the
\* plot callback plots nothing for that layer; the call returns normally.
C17_OffImageYieldsNone ==
    /\ Done("extract_voxel_time_series") \/ Done("_extract_voxel_time_series") =>
          (OffImage(MappedIndex(call.arg.layer, call.arg.cpos),
                    call.arg.layer.shape)
              => call.res.vts = None)
    /\ Done("_plot_voxel_callback") =>
          (OffImage(MappedIndex(call.arg.layer, RoundedCursor(call.arg.cpos)),
                    call.arg.layer.shape)
              => call.res.vts = None /\ call.res.plotted = <<>>)

\* Shift held with the cursor at (1.0, 1.0, 0.0) over a (2, 3, 3) image
\* translated by one pixel: the index (0, 0, -1) is off the image, nothing
\* is plotted
C17_Witness ==
    /\ Done("_plot_voxel_callback")
    /\ call.arg.cpos = <<2, 2, 0>>
    /\ call.arg.layer = [shape |-> <<2, 3, 3>>, translate |-> 1]
    /\ call.res.ind = <<0, 0, -1>>
    /\ call.res.vts = None
    /\ call.res.plotted = <<>>

\* the elements of the region k + 1 at time point i: the pixels labelled
\* k + 1, in the plane at the out-of-plane position of the current step
RegionAt(i, step, labels, k) ==
    {<<i - 1>> \o step \o <<p>> : p \in {q \in DOMAIN labels : labels[q] = k + 1}}

\* the label array has a pixel of the region k + 1
HasRegion(labels, k) == \E p \in DOMAIN labels : labels[p] = k + 1

\* C18: for every label array with a pixel of region k + 1 and every
\* reducer name, extract_ROI_time_series returns for every time point the
\* reducer over exactly the voxels labelled k + 1: the whole plane of a 3-D
\* source, the plane at the current step's position and no other of a
\* higher-dimensional source.
C18_RoiReducesRegion ==
    Done("extract_ROI_time_series") /\ HasRegion(call.arg.labels, call.arg.idx_shape) =>
        /\ call.res.err = ""
        /\ call.res.val # None
        /\ call.res.val[2] =
              [i \in 1 .. call.arg.layer.t |->
                  [reducer |-> mode_dict[call.arg.roi_mode],
                   over |-> RegionAt(i, call.arg.step, call.arg.labels,
                                     call.arg.idx_shape)]]

\* C18 holds for the sources of three and four dimensions
C18_UpToFourDimensions ==
    Done("extract_ROI_time_series") /\ Len(call.arg.layer.outer) <= 1
        => C18_RoiReducesRegion

\* C19: for sources of three and of more dimensions and every reducer
\* name, when no pixel of the label array equals k + 1,
\* extract_ROI_time_series returns None: it neither raises nor returns a
\* series.
C19_NoRegionYieldsNone ==
    Done("extract_ROI_time_series") /\ ~HasRegion(call.arg.labels, call.arg.idx_shape) =>
        call.res.err = "" /\ call.res.val = None

\* C19 holds for the sources of three and four dimensions
C19_UpToFourDimensions ==
    Done("extract_ROI_time_series") /\ Len(call.arg.layer.outer) <= 1
        => C19_NoRegionYieldsNone

\* every element of the sequence from position n on is the NaN fill value
OnlyNaNFrom(q, n) == \A i \in n .. Len(q) : q[i] = NaN

\* C20: aligning a non-empty mapping gives a mapping with the same keys in
\* which every sequence has the maximum input length, starts with its
\* unchanged input sequence and continues with NaN only; a sequence of
\* maximum length is unchanged, and aligning the aligned mapping again
\* returns it unchanged.
C20_AlignedColumns ==
    Done("update") /\ DOMAIN call.arg.tsData # {} =>
        LET d == call.arg.tsData
            out == call.res.data
            longest == MaxOf({Len(d[k]) : k \in DOMAIN d})
        IN  /\ call.res.err = ""
            /\ call.res.rv
            /\ DOMAIN out = DOMAIN d
            /\ \A k \in DOMAIN d :
                  /\ Len(out[k]) = longest
                  /\ SubSeq(out[k], 1, Len(d[k])) = d[k]
                  /\ OnlyNaNFrom(out[k], Len(d[k]) + 1)
                  /\ Len(d[k]) = longest => out[k] = d[k]
            /\ update(out).data = out

\* a series of one sample and a series of two: the shorter one is followed
\* by one NaN
C20_Witness ==
    /\ Done("update")
    /\ call.arg.tsData = [k1 |-> <<"1.0">>, k2 |-> <<"2.5", "1.0">>]
    /\ call.res.data = [k1 |-> <<"1.0", NaN>>, k2 |-> <<"2.5", "1.0">>]

----------------------------------------------------------------------------
(* C21: shapes that span several planes *)

\* the vertices of the shape resolve to more than one out-of-plane position
SpansPlanes(vertices) ==
    \E i, j \in DOMAIN vertices : vertices[i].plane # vertices[j].plane

\* C21: the index derivation of a shape whose vertices, without their y/x
\* coordinates, resolve to more than one out-of-plane position fails with
\* NonPlanarShape and returns no index set; when every shape has exactly one
\* such position NonPlanarShape is not raised.
C21_NonPlanarRefused ==
    Done("_extract_indices") =>
        /\ (\E i \in DOMAIN call.arg.shapes : SpansPlanes(call.arg.shapes[i]))
              => call.res.err = "NonPlanarShape" /\ call.res.val = <<>>
        /\ (\A i \in DOMAIN call.arg.shapes : ~SpansPlanes(call.arg.shapes[i]))
              => call.res.err = ""
                 /\ Len(call.res.val) = Len(call.arg.shapes)

\* a shapes layer over a 4-D image: the first shape lies in plane 0, the
\* second has a vertex in plane 0 and one in plane 1; the derivation of the
\* layer's indices is refused
C21_Witness ==
    /\ Done("_extract_indices")
    /\ call.arg.source = A4
    /\ call.arg.shapes = <<(<<Vertex(0, 0)>>), (<<Vertex(0, 0), Vertex(1, 1)>>)>>
    /\ call.res.err = "NonPlanarShape"

----------------------------------------------------------------------------
(* C22, C23: the LayerSelector *)

\* C22: after every inserted and removed event, in any order, the layers of
\* the checkboxes are exactly the Image layers of 3 or 4 dimensions in
\* viewer.layers, each once: 2-D and 5-D images and other layers have no
\* checkbox, and a removed layer has none any more.
C22_CheckboxesMatchLayers ==
    selector.docked =>
        /\ {selector.cboxes[i].layer : i \in DOMAIN selector.cboxes}
              = {l \in Range(layers) : l.type = "image" /\ l.ndim \in {3, 4}}
        /\ \A i, j \in DOMAIN selector.cboxes :
              selector.cboxes[i].layer = selector.cboxes[j].layer => i = j

\* the 3-D image was removed from a viewer that holds the 5-D image, the
\* labels layer and the 4-D image: one checkbox is left, that of the 4-D
\* image
C22_Witness ==
    /\ selector.docked
    /\ log = <<LogE("event", "A3", "", "removed")>>
    /\ {W5, L3, A4} \subseteq Range(layers)
    /\ Len(selector.cboxes) = 1
    /\ selector.cboxes[1].layer = A4

\* C23: when a checkbox has changed state, selected_layers is the list of
\* the layers of the checked checkboxes in checkbox order, that list was
\* emitted on the Sync signal, and VoxelPlotter.selected_layers equals it;
\* the two lists are equal in every state and empty at the start.
C23_SelectionFollowsBoxes ==
    selector.docked =>
        /\ selector.plotter_layers = selector.selected_layers
        /\ log = <<>> => selector.selected_layers = <<>>
        /\ (log # <<>> /\ log[1].info = "stateChanged") =>
              /\ selector.selected_layers
                    = Concat([i \in DOMAIN selector.cboxes |->
                                 IF selector.cboxes[i].checked
                                 THEN <<selector.cboxes[i].layer>> ELSE <<>>])
              /\ selector.signal = <<selector.selected_layers>>

\* the box of the 3-D image was unchecked while that of the 4-D image, the
\* first box, stays checked: both widgets hold the 4-D image alone
C23_Witness ==
    /\ selector.docked
    /\ log = <<LogE("event", "A3", "", "stateChanged")>>
    /\ Len(selector.cboxes) = 2
    /\ selector.cboxes[1] = [layer |-> A4, checked |-> TRUE]
    /\ selector.cboxes[2] = [layer |-> A3, checked |-> FALSE]
    /\ selector.selected_layers = <<A4>>
    /\ selector.plotter_layers = <<A4>>
    /\ selector.signal = <<(<<A4>>)>>

----------------------------------------------------------------------------
(* C24: the table view *)

\* the columns a table shows for a tsData mapping: one per identifier, of
\* equal length
ColumnsOf(d) == IF DOMAIN d = {} THEN EmptyFrame ELSE align_value_length(d).val

\* C24: after every dataChanged notification of the source the table model
\* of a TimeSeriesTableView holds one column per identifier of the source's
\* current tsData, with the length-aligned values; it never shows an older
\* mapping.
C24_TableFollowsSource ==
    table.requested /\ table.notified => table.frame = ColumnsOf(table.source)

----------------------------------------------------------------------------
(* C25: the result of update *)

\* C25: for every state of the source, an empty tsData included, update()
\* of the table model ends with a boolean and raises nothing: True when the
\* table was updated from the source mapping (the stored table is then the
\* frame built from the mapping and layoutChanged was emitted), False
\* otherwise.
C25_UpdateReturnsBoolean ==
    /\ Done("update") =>
          /\ call.res.err = ""
          /\ call.res.rv =>
                /\ call.res.emitted
                /\ call.res.data = ColumnsOf(call.arg.tsData)
          /\ ~call.res.rv => ~call.res.emitted /\ call.res.data = EmptyFrame
    /\ Done("DataTableModel.update") =>
          /\ call.res.err = ""
          /\ call.res.rv => call.res.emitted /\ call.res.data = call.arg.data
          /\ ~call.res.rv => ~call.res.emitted /\ call.res.data = EmptyFrame

\* C25 holds for DataTableModel.update of utils.py and, on a tsData that is
\* not empty, for TimeSeriesTableModel.update
C25_UnlessEmpty ==
    (Done("update") /\ DOMAIN call.arg.tsData = {}) \/ C25_UpdateReturnsBoolean

----------------------------------------------------------------------------
(* C28: the search of a SelectorListModel *)

\* the rows, from 0, of the items whose text is t
MatchingRows(items, t) == {i - 1 : i \in {j \in DOMAIN items : items[j] = t}}

\* C28: get_item_idx_by_text(t) returns the row index as an int when one
\* item's text equals t, the list of all matching rows when several do, the
\* empty list when none does; so the result is truthy exactly when some
\* item's text equals t, wherever the matching item stands.
C28_TruthyIffMatch ==
    Done("get_item_idx_by_text") =>
        LET rws == MatchingRows(call.arg.items, call.arg.text)
        IN  /\ Cardinality(rws) = 1
                  => call.res.int /\ call.res.index \in rws
            /\ Cardinality(rws) # 1
                  => ~call.res.int /\ Range(call.res.list) = rws
                     /\ Len(call.res.list) = Cardinality(rws)
            /\ truth(call.res) <=> rws # {}

\* the three shapes of the result are as C28 says
C28_ResultShape ==
    Done("get_item_idx_by_text") =>
        LET rws == MatchingRows(call.arg.items, call.arg.text)
        IN  /\ Cardinality(rws) = 1
                  => call.res.int /\ call.res.index \in rws
            /\ Cardinality(rws) # 1
                  => ~call.res.int /\ Range(call.res.list) = rws
                     /\ Len(call.res.list) = Cardinality(rws)

----------------------------------------------------------------------------
(* C26: a change of the reducer *)

\* C26: setAggFunc(f) stores f, recomputes the cached series of every
\* Selection child of every Source with f, emits nothing while the children
\* are recomputed and one dataChanged after the last of them; indices, check
\* states and the series of points Selections are as before.
C26_SetAggFunc ==
    [][\A f \in Reducers :
        log'[1] = LogE("event", "", f, "setAggFunc") =>
          /\ agg' = f
          /\ Len(rows') = Len(rows)
          /\ \A r \in DOMAIN rows :
                /\ rows'[r].checked = rows[r].checked
                /\ Len(rows'[r].children) = Len(rows[r].children)
                /\ \A j \in DOMAIN rows[r].children :
                      LET old == rows[r].children[j]
                          new == rows'[r].children[j]
                      IN  /\ new.layer = old.layer
                          /\ new.checked = old.checked
                          /\ new.indices = old.indices
                          /\ old.layer.type = "points" => new.ts = old.ts
                          /\ old.layer.type = "shapes" =>
                                new.ts = [i \in DOMAIN old.indices |->
                                            TsVal(rows[r].layer,
                                                  ver[rows[r].layer.id],
                                                  old.indices[i], f)]
          /\ log'[Len(log')] = LogE("emit", "", "", "")
          /\ \A i \in 1 .. Len(log') - 1 : log'[i].op \in {"event", "ts"}
          /\ Len(log') = 2 + Cardinality({<<r, j>> \in (DOMAIN rows) \X (1 .. 2) :
                                              j \in DOMAIN rows[r].children})
      ]_vars

\* C26 holds for the reducers mean and max as long as no shape of a shapes
\* Selection is without a voxel
C26_CallableOnVoxels ==
    [][\A f \in Reducers :
        /\ log'[1] = LogE("event", "", f, "setAggFunc")
        /\ f # "None"
        /\ \A r \in DOMAIN rows : \A j \in DOMAIN rows[r].children :
              \A i \in DOMAIN rows[r].children[j].indices :
                 rows[r].children[j].indices[i] # {}
        => /\ agg' = f
           /\ log'[Len(log')] = LogE("emit", "", "", "")
           /\ \A i \in 1 .. Len(log') - 1 : log'[i].op \in {"event", "ts"}
           /\ \A r \in DOMAIN rows : \A j \in DOMAIN rows[r].children :
                 rows'[r].children[j].layer.type = "shapes" =>
                    \A i \in DOMAIN rows'[r].children[j].ts :
                       rows'[r].children[j].ts[i].red = f
      ]_vars

\* C30: in every reachable state the cached series of every shape of a shapes
\* Selection is the current reducer applied over the voxels of the shape, on
\* the current data of the image; so it is right after the item was created
C30_ShapeSeriesReduced ==
    \A r \in DOMAIN rows : \A j \in DOMAIN rows[r].children :
       LET item == rows[r]
           child == item.children[j]
       IN  child.layer.type = "shapes" =>
              child.ts = [i \in DOMAIN child.indices |->
                             TsVal(item.layer, ver[item.layer.id],
                                   child.indices[i], agg)]

\* once updateTSData has run for a shapes Selection in the model, its series
\* are the reduced ones
C30_ReducedOnceUpdated ==
    [][\A r \in DOMAIN rows' : \A j \in DOMAIN rows'[r].children :
          LET item == rows'[r]
              child == item.children[j]
          IN  /\ child.layer.type = "shapes"
              /\ \E i \in DOMAIN log' :
                    log'[i] = LogE("ts", item.layer.id, child.layer.id, "")
              => child.ts = [i \in DOMAIN child.indices |->
                                TsVal(item.layer, ver'[item.layer.id],
                                      child.indices[i], agg')]
      ]_vars

\* C27: after every draw() the plots are those of the keys of tsData, the
\* y-data of the line of a key is the value of the key, the axes hold no
\* line of another key and none but the line of each key, and without data
\* the info text is shown; draw() raises nothing
C27_PlotsFollowData ==
    call.fn = "draw" /\ call.done =>
       LET data == call.arg.tsData
           w == call.res
       IN  /\ w.err = ""
           /\ DOMAIN w.plots = DOMAIN data
           /\ \A key \in DOMAIN data : w.plots[key].cols = data[key].cols
           /\ w.lines = {Line2D(key, 1, w.plots[key]) : key \in DOMAIN data}
           /\ w.info = (DOMAIN data = {})

\* C27 holds as long as every value of tsData, now and at the draw before,
\* is a time series
C27_OfTimeSeries ==
    /\ call.fn = "draw" /\ call.done
    /\ \A key \in DOMAIN call.arg.tsData : call.arg.tsData[key].dim = 1
    /\ \A key \in DOMAIN call.arg.before : call.arg.before[key].dim = 1
    => LET data == call.arg.tsData
           w == call.res
       IN  /\ w.err = ""
           /\ DOMAIN w.plots = DOMAIN data
           /\ \A key \in DOMAIN data : w.plots[key] = data[key]
           /\ w.lines = {Line2D(key, 1, data[key]) : key \in DOMAIN data}
           /\ w.info = (DOMAIN data = {})

\* C29: once a Selection item is removed from the registry, no later
\* geometry or data event derives indices or extracts series for its pairing,
\* notifies for it or raises for it: whatever a handler of such an event
\* does, it does for a pairing that is in the registry
C29_RemovedNotInvoked ==
    [][log'[1].info \in {"geometry", "data"} =>
          \A i \in DOMAIN log' :
             log'[i].op \in {"indices", "ts", "emit", "raise"} =>
                \E r \in DOMAIN rows' : \E j \in DOMAIN rows'[r].children :
                   /\ rows'[r].layer.id = log'[i].src
                   /\ rows'[r].children[j].layer.id = log'[i].sel
      ]_vars

\* the callbacks of the removed items are disconnected by the removal
C29_DisconnectedOnRemoval == detached = {}

\* no notification is emitted for a removed item
C29_NoNotification ==
    [][\A i \in DOMAIN log' :
          log'[i].op = "emit" /\ log'[i].sel # "" =>
             \E r \in DOMAIN rows' : \E j \in DOMAIN rows'[r].children :
                /\ rows'[r].layer.id = log'[i].src
                /\ rows'[r].children[j].layer.id = log'[i].sel
      ]_vars

----------------------------------------------------------------------------
(* C31: the removal of an image that has no Source node *)

\* C31: the removed event of an image that never qualified as a Source (a
\* 2-D or an RGB image) leaves the rows, their check states and caches and
\* tsData as they are, and its handler raises nothing
C31_RemoveUnqualifiedImage ==
    [][\A l \in pool :
        Handled("removed", l) /\ l.type = "image" /\ ~IsSourceLayer(l) =>
           /\ rows' = rows
           /\ LET before == tsData
                  after == tsData'
              IN  after = before
           /\ Len(log') = 1
      ]_vars

\* the registry is left as it is by such an event, whatever its handler
\* raises
C31_RegistryUnchanged ==
    [][\A l \in pool :
        Handled("removed", l) /\ l.type = "image" /\ ~IsSourceLayer(l) =>
           /\ rows' = rows
           /\ LET before == tsData
                  after == tsData'
              IN  after = before
      ]_vars

----------------------------------------------------------------------------
(* C32: the notifications of one geometry event *)

\* the rows once the first k of the callbacks connected to the data event of
\* layer l have run for the geometry gm: what a consumer reads at the
\* notification of the k-th
SeenAt(k, l, gm) ==
    Dispatch(rows, SubSeq(Connected(rows, l, "indices"), 1, k), "indices",
             gm, ver, agg, <<>>).rows

\* C32: at every notification of a geometry event whose handlers raise
\* nothing, tsData holds for the Selections of the layer the series they have
\* once the event is handled, none that was derived from the geometry before
\* the event
C32_NoStaleSeriesNotified ==
    [][\A l \in pool :
        /\ Handled("geometry", l)
        /\ \A i \in DOMAIN log' : log'[i].op # "raise"
        => LET after == tsData'
           IN  \A k \in 1 .. Len(Connected(rows, l, "indices")) :
                  LET seen == TsData(SeenAt(k, l, geom'), name)
                  IN  \A key \in DOMAIN seen :
                         seen[key].sel = l.id =>
                            key \in DOMAIN after /\ after[key] = seen[key]
      ]_vars

\* at its own notification a Selection has the series of the new geometry
C32_OwnSeriesFresh ==
    [][\A l \in pool :
        /\ Handled("geometry", l)
        /\ \A i \in DOMAIN log' : log'[i].op # "raise"
        => LET paths == Connected(rows, l, "indices")
           IN  \A k \in 1 .. Len(paths) :
                  SeenAt(k, l, geom')[paths[k][1]].children[paths[k][2]]
                     = rows'[paths[k][1]].children[paths[k][2]]
      ]_vars

----------------------------------------------------------------------------
(* C33: the live-cursor entries of tsData *)

\* the live-cursor entries of d come from Sources in rws that are checked
LiveFromChecked(d, rws) ==
    \A k \in DOMAIN d :
       d[k].src = "" /\ d[k].sel = "" =>
          \E r \in DOMAIN rws :
             /\ rws[r].kind = "source" /\ rws[r].checked
             /\ rws[r].layer.id = d[k].ts.img

\* C33: in every reachable state every live-cursor entry of tsData is a
\* series of a Source that is present and checked, also between the
\* unchecking or removal of the Source and the next move of the cursor
C33_LiveOnlyFromChecked == LiveFromChecked(tsData, rows)

\* right after a mouse move with Shift held the live-cursor entries are
\* those of present, checked Sources
C33_AfterCursorMove ==
    [][\A h \in Halves :
        log'[1] = LogE("event", "", ToString(h), "mouse Shift") =>
           LET after == tsData'
           IN  LiveFromChecked(after, rows')
      ]_vars

----------------------------------------------------------------------------
(* C34: the selections and the layers of the viewer *)

\* C34: LayerSelector.selected_layers and VoxelPlotter.selected_layers hold
\* only layers that are in viewer.layers; the removal of a layer whose box
\* is checked takes the layer out of both
C34_SelectedAreInViewer ==
    selector.docked =>
       /\ Range(selector.selected_layers) \subseteq Range(layers)
       /\ Range(selector.plotter_layers) \subseteq Range(layers)

\* right after a check box changed its state both selections hold only
\* layers of the viewer
C34_AfterStateChange ==
    [][log'[1].info = "stateChanged" =>
          /\ Range(selector'.selected_layers) \subseteq Range(layers')
          /\ Range(selector'.plotter_layers) \subseteq Range(layers')
      ]_vars

----------------------------------------------------------------------------
(* C35: the rows that the proxy model of the LayerSelector accepts *)

\* C35: with filter type 1003 the proxy accepts the row of every Source node
\* and the row of every Selection child, whatever its row number, and
\* rejects the row of the live-cursor node only
C35_FilterAcceptsNodes ==
    /\ \A r \in DOMAIN rows :
          LET rv == filterAcceptsRow(rows, LayerSelectorFilterType, r - 1, NoParent)
          IN  rv.err = "" /\ rv.val = (rows[r].kind # "live")
    /\ \A n \in Nodes(rows) :
          LET rv == filterAcceptsRow(rows, LayerSelectorFilterType, n[2] - 1, n[1])
          IN  rv.err = "" /\ rv.val = TRUE

\* the rows of the top level: every Source row is accepted and the row of
\* the live-cursor node is rejected
C35_TopLevelRows ==
    \A r \in DOMAIN rows :
       LET rv == filterAcceptsRow(rows, LayerSelectorFilterType, r - 1, NoParent)
       IN  rv.err = "" /\ rv.val = (rows[r].kind # "live")

\* a child row is accepted when the top level has a Source node in the row
\* of the same number
C35_ChildRowBesideSource ==
    \A n \in Nodes(rows) :
       n[2] \in DOMAIN rows /\ rows[n[2]].kind = "source" =>
          filterAcceptsRow(rows, LayerSelectorFilterType, n[2] - 1, n[1]) = Ok(TRUE)

----------------------------------------------------------------------------
(* C36: the identifier of the series of a point *)

\* the points of geometry g lie at different places
Apart(g) == \A p, q \in DOMAIN g : p # q => g[p] # g[q]

\* geometry h is geometry g with the one point q moved
MovedOne(g, h, q) ==
    /\ Len(h) = Len(g) /\ Apart(g) /\ Apart(h)
    /\ q \in DOMAIN g /\ h[q] # g[q]
    /\ \A p \in DOMAIN g \ {q} : h[p] = g[p]

\* the series of the point at place x of layer l has the same key in the
\* dicts d and e under every Source that has it in both
SameKeyOfPoint(d, e, l, x) ==
    \A k \in DOMAIN d : \A m \in DOMAIN e :
       /\ d[k].sel = l.id /\ e[m].sel = l.id /\ d[k].src = e[m].src
       /\ d[k].ts.vox = {x} /\ e[m].ts.vox = {x}
       => k = m

\* C36: while no layer is renamed and no point is added or deleted, the key
\* of the series of a point does not change when another point of the same
\* layer moves, out of the bounds of the Source and back in too
C36_KeyStablePerPoint ==
    [][\A l \in pool : Handled("geometry", l) /\ l.type = "points" =>
          LET before == tsData
              after == tsData'
          IN  \A q \in DOMAIN geom[l.id] :
                 MovedOne(geom[l.id], geom'[l.id], q) =>
                    \A p \in DOMAIN geom[l.id] \ {q} :
                       SameKeyOfPoint(before, after, l, geom[l.id][p])
      ]_vars

\* the key of the series of a point stays when the point that moves comes
\* after it in the layer
C36_StableBeforeMovedPoint ==
    [][\A l \in pool : Handled("geometry", l) /\ l.type = "points" =>
          LET before == tsData
              after == tsData'
          IN  \A q \in DOMAIN geom[l.id] :
                 MovedOne(geom[l.id], geom'[l.id], q) =>
                    \A p \in DOMAIN geom[l.id] \ {q} :
                       p < q => SameKeyOfPoint(before, after, l, geom[l.id][p])
      ]_vars

----------------------------------------------------------------------------
(* C37: voxel extraction and the time axis *)

\* the spatial part of the index lies inside the array of that shape
SpatiallyInside(ind, shape) ==
    \A i \in DOMAIN shape \ {1} : ind[i] \in 0 .. shape[i] - 1

\* C37: for every cursor position whose spatial indices lie inside the
\* array, extract_voxel_time_series and the VoxelPlotter's copy of it return
\* the complete series data[:, spatial index], whatever the coordinate of
\* the cursor on axis 0 is, below 0 and from shape[0] on too
C37_FullTimeAxis ==
    /\ Done("extract_voxel_time_series") =>
          LET ind == MappedIndex(call.arg.layer, call.arg.cpos)
          IN  SpatiallyInside(ind, call.arg.layer.shape) =>
                 /\ call.res.vts # None
                 /\ call.res.vts[2] = StoredSeries(call.arg.layer.shape, ind)
    /\ Done("_extract_voxel_time_series") =>
          LET ind == MappedIndex(call.arg.layer, call.arg.cpos)
          IN  SpatiallyInside(ind, call.arg.layer.shape) =>
                 call.res.vts = StoredSeries(call.arg.layer.shape, ind)

\* a series that is returned is the complete series stored at the spatial
\* part of the index
C37_ReturnedSeriesComplete ==
    /\ Done("extract_voxel_time_series") /\ call.res.vts # None =>
          call.res.vts[2] = StoredSeries(call.arg.layer.shape,
                                MappedIndex(call.arg.layer, call.arg.cpos))
    /\ Done("_extract_voxel_time_series") /\ call.res.vts # None =>
          call.res.vts = StoredSeries(call.arg.layer.shape,
                             MappedIndex(call.arg.layer, call.arg.cpos))

\* with the spatial indices inside the array no series is returned exactly
\* when the index on axis 0 lies outside it
C37_NoneWhenTimeOutside ==
    \A fn \in {"extract_voxel_time_series", "_extract_voxel_time_series"} :
       Done(fn) =>
          LET ind == MappedIndex(call.arg.layer, call.arg.cpos)
          IN  SpatiallyInside(ind, call.arg.layer.shape) =>
                 (call.res.vts = None <=> ind[1] \notin 0 .. call.arg.layer.shape[1] - 1)
====
